---- MODULE Spec2Model ----
(***************************************************************************)
(* A model of the ALE adapter (package ale): the section parser, the       *)
(* timecode, FPS and CDL helpers, Decoder.Decode and Encoder.Encode.       *)
(*                                                                         *)
(* Text is modelled character by character: a string is a sequence of      *)
(* one-character strings, a file is one such sequence with "\n" between    *)
(* its lines.  Numbers read by strconv.ParseFloat are decimal numerals     *)
(* (sign, digits, one optional point); the exponent, hexadecimal, Inf and  *)
(* NaN forms are outside the modelled alphabet.  Frame rates are integers  *)
(* in thousandths of a frame per second (24.0 is 24000, 29.97 is 29970);   *)
(* time values are whole frames; CDL numbers are integers in 1/10000.      *)
(*                                                                         *)
(* opentime.FromTimecode / ToTimecode / FromFrames / RescaledTo and the    *)
(* timeline object model are the gotio library's; they are modelled at     *)
(* their call sites with the semantics of the OpenTimelineIO opentime      *)
(* reference implementation that gotio ports.                              *)
(*                                                                         *)
(* A value that a function computes once and uses several times is the     *)
(* parameter of a local operator: LET result(x) == ... IN result(e).       *)
(* Ranging over a Go map yields its keys in an unspecified order: the      *)
(* operators that depend on it take the order as a parameter and the       *)
(* actions choose it.                                                      *)
(***************************************************************************)
EXTENDS Integers, Sequences, FiniteSets, TLC

\* ------------------------------------------------------------------ text

TAB == "\t"
NL == "\n"
CR == "\r"

Digits == {"0", "1", "2", "3", "4", "5", "6", "7", "8", "9"}

\* unicode.IsSpace on the modelled alphabet
IsSpace(c) == c \in {" ", TAB, NL, CR}

RECURSIVE TrimLeft(_)
TrimLeft(s) == IF s # <<>> /\ IsSpace(Head(s)) THEN TrimLeft(Tail(s)) ELSE s

RECURSIVE TrimRight(_)
TrimRight(s) ==
    IF s # <<>> /\ IsSpace(s[Len(s)]) THEN TrimRight(SubSeq(s, 1, Len(s) - 1)) ELSE s

\* strings.TrimSpace
TrimSpace(s) == TrimRight(TrimLeft(s))

\* strings.HasPrefix
HasPrefix(s, p) == Len(s) >= Len(p) /\ SubSeq(s, 1, Len(p)) = p

\* strings.HasSuffix
HasSuffix(s, p) == Len(s) >= Len(p) /\ SubSeq(s, Len(s) - Len(p) + 1, Len(s)) = p

\* strings.Contains for a one-character needle
ContainsChar(s, c) == \E i \in 1..Len(s) : s[i] = c

\* index of the first occurrence of c in s (0 when there is none)
IndexOf(s, c) ==
    IF ContainsChar(s, c)
    THEN CHOOSE i \in 1..Len(s) : s[i] = c /\ \A j \in 1..(i - 1) : s[j] # c
    ELSE 0

\* strings.Split(s, sep) for a one-character separator: never an empty list
RECURSIVE Split(_, _)
Split(s, sep) ==
    LET i == IndexOf(s, sep)
    IN IF i = 0 THEN <<s>>
       ELSE <<SubSeq(s, 1, i - 1)>> \o Split(SubSeq(s, i + 1, Len(s)), sep)

\* strings.Join
RECURSIVE Join(_, _)
Join(parts, sep) ==
    IF parts = <<>> THEN <<>>
    ELSE IF Len(parts) = 1 THEN parts[1]
    ELSE parts[1] \o sep \o Join(Tail(parts), sep)

\* splitTabs / joinTabs
splitTabs(line) == Split(line, TAB)

joinTabs(parts) == Join(parts, <<TAB>>)

\* strings.ReplaceAll(s, old, " ") for a one-character old
ReplaceWithSpace(s, old) == [i \in 1..Len(s) |-> IF s[i] = old THEN " " ELSE s[i]]

\* strings.Fields: the maximal runs of non-space characters
RECURSIVE Fields(_)
Fields(s) ==
    LET t == TrimLeft(s)
    IN IF t = <<>> THEN <<>>
       ELSE LET n == IF \E i \in 1..Len(t) : IsSpace(t[i])
                     THEN (CHOOSE i \in 1..Len(t) :
                              IsSpace(t[i]) /\ \A j \in 1..(i - 1) : ~IsSpace(t[j])) - 1
                     ELSE Len(t)
            IN <<SubSeq(t, 1, n)>> \o Fields(SubSeq(t, n + 1, Len(t)))

\* strings.ToUpper on the letters the track values use
UpperChar(c) == CASE c = "v" -> "V" [] c = "a" -> "A" [] OTHER -> c

ToUpper(s) == [i \in 1..Len(s) |-> UpperChar(s[i])]

\* bufio.Scanner with ScanLines: the lines of the text, without their "\n" and
\* one trailing "\r"; text after the last "\n" is a line only when not empty
DropCR(line) ==
    IF line # <<>> /\ line[Len(line)] = CR THEN SubSeq(line, 1, Len(line) - 1) ELSE line

ScanLines(text) ==
    IF text = <<>> THEN <<>>
    ELSE LET raw == Split(text, NL)
             kept == IF raw[Len(raw)] = <<>> THEN SubSeq(raw, 1, Len(raw) - 1) ELSE raw
         IN [i \in 1..Len(kept) |-> DropCR(kept[i])]

\* --------------------------------------------------------------- numbers

DigitVal(c) ==
    CASE c = "0" -> 0 [] c = "1" -> 1 [] c = "2" -> 2 [] c = "3" -> 3 [] c = "4" -> 4
      [] c = "5" -> 5 [] c = "6" -> 6 [] c = "7" -> 7 [] c = "8" -> 8 [] c = "9" -> 9

DigitChar(n) ==
    CASE n = 0 -> "0" [] n = 1 -> "1" [] n = 2 -> "2" [] n = 3 -> "3" [] n = 4 -> "4"
      [] n = 5 -> "5" [] n = 6 -> "6" [] n = 7 -> "7" [] n = 8 -> "8" [] n = 9 -> "9"

AllDigits(s) == \A i \in 1..Len(s) : s[i] \in Digits

RECURSIVE DigitsVal(_)
DigitsVal(s) ==
    IF s = <<>> THEN 0
    ELSE DigitsVal(SubSeq(s, 1, Len(s) - 1)) * 10 + DigitVal(s[Len(s)])

\* the decimal digits of a natural number
RECURSIVE NatStr(_)
NatStr(n) == IF n < 10 THEN <<DigitChar(n)>> ELSE NatStr(n \div 10) \o <<DigitChar(n % 10)>>

\* strconv.FormatInt(n, 10)
FormatInt(n) == IF n < 0 THEN <<"-">> \o NatStr(-n) ELSE NatStr(n)

\* %02d of a natural number
Pad2(n) == IF n < 10 THEN <<"0">> \o NatStr(n) ELSE NatStr(n)

\* n as exactly k digits (n < 10^k)
RECURSIVE PadK(_, _)
PadK(n, k) == IF k = 0 THEN <<>> ELSE PadK(n \div 10, k - 1) \o <<DigitChar(n % 10)>>

\* strconv.ParseFloat(s, 64) on decimal numerals: ok, the sign, the integer part
\* and the fraction in 1/10000 (further digits are beyond the model's precision)
ParseFloat(s) ==
    LET result(neg, ip, fp, n) ==
            IF n <= 2 /\ AllDigits(ip) /\ AllDigits(fp) /\ Len(ip) + Len(fp) > 0
            THEN [ok |-> TRUE, neg |-> neg, whole |-> DigitsVal(ip),
                  frac |-> DigitsVal(SubSeq(fp \o <<"0", "0", "0", "0">>, 1, 4))]
            ELSE [ok |-> FALSE, neg |-> FALSE, whole |-> 0, frac |-> 0]
        split(neg, parts) ==
            result(neg, parts[1], IF Len(parts) >= 2 THEN parts[2] ELSE <<>>, Len(parts))
        unsigned(signed) ==
            split(signed /\ s[1] = "-", Split(IF signed THEN Tail(s) ELSE s, "."))
    IN unsigned(s # <<>> /\ s[1] \in {"-", "+"})

\* a parsed number as a signed count of 1/10000
Num4(p) == (IF p.neg THEN -1 ELSE 1) * (p.whole * 10000 + p.frac)

\* a parsed number as a signed count of 1/1000 (frame rates)
Milli(p) == (IF p.neg THEN -1 ELSE 1) * (p.whole * 1000 + p.frac \div 10)

\* ------------------------------------------------- opentime (gotio library)

\* the rates opentime accepts for timecode (SMPTE rates, in 1/1000 fps)
SMPTERates ==
    {1000, 12000, 23970, 23976, 23980, 24000, 25000, 29970, 30000, 48000, 50000,
     59940, 60000}

\* opentime's own drop-frame rates
LibDropFrameRates == {29970, 59940}

\* ceil(rate): the frame numbers of one second of timecode
NominalFPS(rate) == (rate + 999) \div 1000

\* frames dropped at each minute that is not a tenth minute
DropFrames(rate) == IF rate = 29970 THEN 2 ELSE IF rate = 59940 THEN 4 ELSE 0

\* round(rate * 3600) * 24: timecode rolls over after 24 hours
FramesPer24Hours(rate) == ((rate * 3600 + 500) \div 1000) * 24

NewRationalTime(value, rate) == [value |-> value, rate |-> rate]

\* opentime.FromFrames(frames, fps): the frame number cut to an integer
FromFrames(p, fps) == NewRationalTime((IF p.neg THEN -1 ELSE 1) * p.whole, fps)

RECURSIVE GCD(_, _)
GCD(a, b) == IF b = 0 THEN a ELSE GCD(b, a % b)

\* floor(v * n / r) for v >= 0, computed without leaving 32 bits
MulDiv(v, n, r) ==
    LET scaled(n1, r1) == (v \div r1) * n1 + ((v % r1) * n1) \div r1
    IN scaled(n \div GCD(n, r), r \div GCD(n, r))

\* RationalTime.RescaledTo: value * newRate / rate (the value itself at the same
\* rate); a fraction of a frame is cut, as every reader of the result does
RescaledTo(rt, newRate) ==
    IF rt.rate = newRate THEN rt
    ELSE IF rt.value >= 0
         THEN NewRationalTime(MulDiv(rt.value, newRate, rt.rate), newRate)
         ELSE NewRationalTime(-MulDiv(-rt.value, newRate, rt.rate), newRate)

\* opentime.DurationFromStartEndTime: end - start at the rate of start
DurationFromStartEndTime(start, end) ==
    NewRationalTime(RescaledTo(end, start.rate).value - start.value, start.rate)

NewTimeRange(start, duration) == [some |-> TRUE, start |-> start, duration |-> duration]

\* a nil *TimeRange
NoRange ==
    [some |-> FALSE, start |-> NewRationalTime(0, 0), duration |-> NewRationalTime(0, 0)]

\* TimeRange.EndTimeExclusive
EndTimeExclusive(r) ==
    NewRationalTime(r.start.value + RescaledTo(r.duration, r.start.rate).value, r.start.rate)

\* opentime.FromTimecode(tc, rate): HH:MM:SS:FF, or HH:MM:SS;FF at a drop-frame
\* rate; an error for any other text, an invalid rate, a ";" at a rate that
\* is not drop-frame, or a frame field not below the nominal rate
FromTimecode(tc, rate) ==
    LET shaped == /\ Len(tc) = 11
                  /\ tc[3] = ":" /\ tc[6] = ":" /\ tc[9] \in {":", ";"}
                  /\ \A i \in {1, 2, 4, 5, 7, 8, 10, 11} : tc[i] \in Digits
        value(h, m, s, f, nominal, drop) ==
            nominal * 3600 * h + nominal * 60 * m + nominal * s + f
                - drop * ((h * 60 + m) - (h * 60 + m) \div 10)
        result(semi, f, nominal) ==
            IF (semi => rate \in LibDropFrameRates) /\ f < nominal
            THEN [ok |-> TRUE,
                  rt |-> NewRationalTime(
                             value(DigitsVal(SubSeq(tc, 1, 2)), DigitsVal(SubSeq(tc, 4, 5)),
                                   DigitsVal(SubSeq(tc, 7, 8)), f, nominal,
                                   IF semi THEN DropFrames(rate) ELSE 0),
                             rate)]
            ELSE [ok |-> FALSE, rt |-> NewRationalTime(0, 0)]
    IN IF rate \in SMPTERates /\ shaped
       THEN result(tc[9] = ";", DigitsVal(SubSeq(tc, 10, 11)), NominalFPS(rate))
       ELSE [ok |-> FALSE, rt |-> NewRationalTime(0, 0)]

\* RationalTime.ToTimecode(rate, ForceYes | ForceNo): an error for a negative
\* value, an invalid rate, or ForceYes at a rate that is not drop-frame
ToTimecode(rt, rate, forceDrop) ==
    LET text(v, nominal) ==
            Pad2((v \div nominal) \div 3600) \o <<":">> \o Pad2(((v \div nominal) \div 60) % 60)
                \o <<":">> \o Pad2((v \div nominal) % 60)
                \o <<IF forceDrop THEN ";" ELSE ":">> \o Pad2(v % nominal)
        adjusted(v0, dropframes, framesPer10Min, framesPerMin) ==
            IF ~forceDrop THEN v0
            ELSE IF v0 % framesPer10Min > dropframes
                 THEN v0 + dropframes * 9 * (v0 \div framesPer10Min)
                         + dropframes * (((v0 % framesPer10Min) - dropframes) \div framesPerMin)
                 ELSE v0 + dropframes * 9 * (v0 \div framesPer10Min)
        dropframes == IF forceDrop THEN DropFrames(rate) ELSE 0
    IN IF /\ rt.value >= 0
          /\ rate \in SMPTERates
          /\ (forceDrop => rate \in LibDropFrameRates)
       THEN [ok |-> TRUE,
             tc |-> text(adjusted(RescaledTo(rt, rate).value % FramesPer24Hours(rate),
                                  dropframes, (rate * 600 + 500) \div 1000,
                                  NominalFPS(rate) * 60 - dropframes),
                         NominalFPS(rate))]
       ELSE [ok |-> FALSE, tc |-> <<>>]

\* ------------------------------------------------------------------ ale.go

ColumnName == <<"N", "a", "m", "e">>
ColumnTracks == <<"T", "r", "a", "c", "k", "s">>
ColumnStart == <<"S", "t", "a", "r", "t">>
ColumnEnd == <<"E", "n", "d">>
ColumnDuration == <<"D", "u", "r", "a", "t", "i", "o", "n">>
ColumnTape == <<"T", "a", "p", "e">>
ColumnSourceFile == <<"S", "o", "u", "r", "c", "e", " ", "F", "i", "l", "e">>
ColumnASCSOP == <<"A", "S", "C", "_", "S", "O", "P">>
ColumnASCSAT == <<"A", "S", "C", "_", "S", "A", "T">>

HeaderHeading == <<"H", "e", "a", "d", "i", "n", "g">>
HeaderColumn == <<"C", "o", "l", "u", "m", "n">>
HeaderData == <<"D", "a", "t", "a">>
HeaderFieldDelim == <<"F", "I", "E", "L", "D", "_", "D", "E", "L", "I", "M">>
HeaderVideoFormat == <<"V", "I", "D", "E", "O", "_", "F", "O", "R", "M", "A", "T">>
HeaderAudioFormat == <<"A", "U", "D", "I", "O", "_", "F", "O", "R", "M", "A", "T">>
HeaderFPS == <<"F", "P", "S">>

DefaultFPS == 24000
DefaultFieldDelim == <<"T", "A", "B", "S">>

\* map[string]string: a function on the set of its keys; a missing key reads ""
EmptyMap == [k \in {} |-> <<>>]

Get(m, k) == IF k \in DOMAIN m THEN m[k] ELSE <<>>

Put(m, k, v) == [x \in (DOMAIN m) \cup {k} |-> IF x = k THEN v ELSE m[x]]

NewALEFile == [Headers |-> EmptyMap, Columns |-> <<>>, Rows |-> <<>>]

\* parseTimecode that reads frame numbers only
parseTimecode_FrameNumberOnly(tc, fps) ==
    LET result(p) ==
            IF p.ok THEN [ok |-> TRUE, rt |-> FromFrames(p, fps)]
            ELSE [ok |-> FALSE, rt |-> NewRationalTime(0, 0)]
    IN IF tc = <<>> THEN [ok |-> FALSE, rt |-> NewRationalTime(0, 0)]
       ELSE result(ParseFloat(tc))

\* parseTimecode: a timecode, else a frame number, else an error
parseTimecode(tc, fps) ==
    LET result(r, p) ==
            IF r.ok THEN r
            ELSE IF p.ok THEN [ok |-> TRUE, rt |-> FromFrames(p, fps)]
            ELSE [ok |-> FALSE, rt |-> NewRationalTime(0, 0)]
    IN IF tc = <<>> THEN [ok |-> FALSE, rt |-> NewRationalTime(0, 0)]
       ELSE result(FromTimecode(tc, fps), ParseFloat(tc))

\* formatTimecode: rescale to fps, then ToTimecode with ForceYes or ForceNo
formatTimecode(rt, fps, dropFrame) == ToTimecode(RescaledTo(rt, fps), fps, dropFrame)

\* parseFrameNumber
parseFrameNumber(s, fps) ==
    LET result(p) ==
            IF p.ok THEN [ok |-> TRUE, rt |-> FromFrames(p, fps)]
            ELSE [ok |-> FALSE, rt |-> NewRationalTime(0, 0)]
    IN result(ParseFloat(s))

\* formatFrameNumber: the rescaled value cut to an integer
formatFrameNumber(rt, fps) == FormatInt(RescaledTo(rt, fps).value)

\* parseFPS: the rate and whether an error is returned with it
parseFPS(str) ==
    LET result(s, p) ==
            IF s = <<>> THEN [fps |-> DefaultFPS, ok |-> TRUE]
            ELSE IF ~p.ok THEN [fps |-> DefaultFPS, ok |-> FALSE]
            ELSE IF Milli(p) <= 0 THEN [fps |-> DefaultFPS, ok |-> FALSE]
            ELSE [fps |-> Milli(p), ok |-> TRUE]
    IN result(TrimSpace(str), ParseFloat(TrimSpace(str)))

\* isDropFrame: 29.96 < fps < 29.98 or 59.93 < fps < 59.95
isDropFrame(fps) == (fps > 29960 /\ fps < 29980) \/ (fps > 59930 /\ fps < 59950)

\* fmt.Sprintf("%.2f", fps) of a rate in 1/1000
FormatFPS(fps) ==
    LET h == (fps + 5) \div 10
    IN NatStr(h \div 100) \o <<".">> \o PadK(h % 100, 2)

\* a nil *SOPValues / *CDLData
NoSOP == [some |-> FALSE, Slope |-> <<0, 0, 0>>, Offset |-> <<0, 0, 0>>, Power |-> <<0, 0, 0>>]

NoSat == [some |-> FALSE, val |-> 0]

NoCDL == [some |-> FALSE, ASCSOP |-> NoSOP, ASCSat |-> NoSat]

\* parseASCSOP: parentheses become spaces, then at least 9 fields, the first 9
\* of them numbers
parseASCSOP(str) ==
    LET values(n) ==
            IF \E i \in 1..9 : ~n[i].ok THEN [ok |-> FALSE, sop |-> NoSOP]
            ELSE [ok |-> TRUE,
                  sop |-> [some |-> TRUE,
                           Slope |-> <<Num4(n[1]), Num4(n[2]), Num4(n[3])>>,
                           Offset |-> <<Num4(n[4]), Num4(n[5]), Num4(n[6])>>,
                           Power |-> <<Num4(n[7]), Num4(n[8]), Num4(n[9])>>]]
        result(fields) ==
            IF Len(fields) < 9 THEN [ok |-> FALSE, sop |-> NoSOP]
            ELSE values([i \in 1..9 |-> ParseFloat(fields[i])])
    IN result(Fields(ReplaceWithSpace(ReplaceWithSpace(str, "("), ")")))

\* parseASCCDL: never an error; a CDL only when one of the two parsed
parseASCCDL(ascSOP, ascSat) ==
    LET sopOf(r) == IF ascSOP # <<>> /\ r.ok THEN r.sop ELSE NoSOP
        satOf(p) == IF ascSat # <<>> /\ p.ok THEN [some |-> TRUE, val |-> Num4(p)] ELSE NoSat
        result(sop, sat) ==
            IF sop.some \/ sat.some
            THEN [some |-> TRUE, ASCSOP |-> sop, ASCSat |-> sat]
            ELSE NoCDL
    IN result(sopOf(parseASCSOP(ascSOP)), satOf(ParseFloat(TrimSpace(ascSat))))

\* %.4f of a number in 1/10000
Fmt4(v) ==
    LET a == IF v < 0 THEN -v ELSE v
    IN (IF v < 0 THEN <<"-">> ELSE <<>>) \o NatStr(a \div 10000) \o <<".">>
           \o PadK(a % 10000, 4)

\* %.1f of a number in 1/10000
Fmt1(v) ==
    LET a == IF v < 0 THEN -v ELSE v
        t == (a + 500) \div 1000
    IN (IF v < 0 /\ t > 0 THEN <<"-">> ELSE <<>>) \o NatStr(t \div 10) \o <<".">>
           \o <<DigitChar(t % 10)>>

\* formatASCSOP
formatASCSOP(sop) ==
    LET triple(t) == <<"(">> \o Fmt4(t[1]) \o <<" ">> \o Fmt4(t[2]) \o <<" ">> \o Fmt4(t[3])
                         \o <<")">>
    IN triple(sop.Slope) \o triple(sop.Offset) \o triple(sop.Power)

\* videoFormatFromDimensions
videoFormatFromDimensions(width, height) ==
    IF height = 1080 THEN (IF width > 1920 THEN <<"C", "U", "S", "T", "O", "M">>
                           ELSE <<"1", "0", "8", "0">>)
    ELSE IF height = 720 THEN <<"7", "2", "0">>
    ELSE IF height = 576 THEN <<"P", "A", "L">>
    ELSE IF height = 486 THEN <<"N", "T", "S", "C">>
    ELSE <<"C", "U", "S", "T", "O", "M">>

\* parseImageSize: spaces removed, "x" and "X" made spaces, then two integers
parseImageSize(imageSize) ==
    LET result(f) ==
            IF Len(f) >= 2 /\ f[1] # <<>> /\ f[2] # <<>> /\ AllDigits(f[1]) /\ AllDigits(f[2])
            THEN [ok |-> TRUE, width |-> DigitsVal(f[1]), height |-> DigitsVal(f[2])]
            ELSE [ok |-> FALSE, width |-> 0, height |-> 0]
        normalized(noSpace) ==
            [i \in 1..Len(noSpace) |-> IF noSpace[i] \in {"x", "X"} THEN " " ELSE noSpace[i]]
    IN result(Fields(normalized(SelectSeq(imageSize, LAMBDA c : c # " "))))

\* ------------------------------------------------- timeline model (gotio)

TrackKindVideo == "Video"
TrackKindAudio == "Audio"

\* a nil *Timeline, and gotio.NewTimeline with its tracks
NilTimeline == [nil |-> TRUE, tracks |-> <<>>]

NewTimeline(tracks) == [nil |-> FALSE, tracks |-> tracks]

NewTrack(name, kind, clips) == [name |-> name, kind |-> kind, clips |-> clips]

NewExternalReference(name, target, availableRange) ==
    [kind |-> "external", name |-> name, target |-> target,
     availableRange |-> availableRange]

NewMissingReference(name, availableRange) ==
    [kind |-> "missing", name |-> name, target |-> <<>>, availableRange |-> availableRange]

\* the clip metadata the adapter reads and writes: metadata["ALE"], metadata["cdl"]
NewMetadata(hasALE, aleMap, cdl) == [hasALE |-> hasALE, ALE |-> aleMap, cdl |-> cdl]

NewClip(name, mediaRef, sourceRange, metadata) ==
    [name |-> name, mediaRef |-> mediaRef, sourceRange |-> sourceRange,
     metadata |-> metadata]

\* a nil *Clip
NilClip ==
    NewClip(<<>>, NewMissingReference(<<>>, NoRange), NoRange,
            NewMetadata(FALSE, EmptyMap, NoCDL))

\* Timeline.FindClips(nil, false): the clips of all tracks, track after track
RECURSIVE FlattenClips(_)
FlattenClips(tracks) ==
    IF tracks = <<>> THEN <<>> ELSE Head(tracks).clips \o FlattenClips(Tail(tracks))

FindClips(timeline) == FlattenClips(timeline.tracks)

\* Timeline.VideoTracks / AudioTracks
VideoTracks(timeline) == SelectSeq(timeline.tracks, LAMBDA t : t.kind = TrackKindVideo)

AudioTracks(timeline) == SelectSeq(timeline.tracks, LAMBDA t : t.kind = TrackKindAudio)

\* --------------------------------------------------------------- ordering

\* the modelled characters in byte order
Alphabet ==
    <<TAB, NL, CR, " ", "(", ")", "+", "-", ".", "/",
      "0", "1", "2", "3", "4", "5", "6", "7", "8", "9", ":", ";",
      "A", "B", "C", "D", "E", "F", "G", "H", "I", "J", "K", "L", "M",
      "N", "O", "P", "Q", "R", "S", "T", "U", "V", "W", "X", "Y", "Z", "_",
      "a", "b", "c", "d", "e", "f", "g", "h", "i", "j", "k", "l", "m",
      "n", "o", "p", "q", "r", "s", "t", "u", "v", "w", "x", "y", "z">>

Ord(c) == CHOOSE i \in 1..Len(Alphabet) : Alphabet[i] = c

\* strings.Compare: -1, 0 or 1 in byte order
RECURSIVE Compare(_, _)
Compare(a, b) ==
    IF a = <<>> /\ b = <<>> THEN 0
    ELSE IF a = <<>> THEN -1
    ELSE IF b = <<>> THEN 1
    ELSE IF Ord(Head(a)) < Ord(Head(b)) THEN -1
    ELSE IF Ord(Head(a)) > Ord(Head(b)) THEN 1
    ELSE Compare(Tail(a), Tail(b))

Swap(seq, i, j) == [seq EXCEPT ![i] = seq[j], ![j] = seq[i]]

\* the sequences that list every element of a set once: the orders in which
\* ranging over a Go map may yield its keys
Orders(S) == {q \in [1..Cardinality(S) -> S] : \A x \in S : \E i \in DOMAIN q : q[i] = x}

\* one fixed order of a set
RECURSIVE SomeOrder(_)
SomeOrder(S) ==
    IF S = {} THEN <<>> ELSE LET x == CHOOSE x \in S : TRUE IN <<x>> \o SomeOrder(S \ {x})

\* ---------------------------------------------------------------- decoder

\* NewDecoder with its options applied
NewDecoder(fps, nameColumnKey, dropFrame) ==
    [fps |-> fps, nameColumnKey |-> nameColumnKey, dropFrame |-> dropFrame]

\* the io.Reader: the text it delivers and whether reading ends in an error
NewReader(text, fail) == [text |-> text, fail |-> fail]

\* the row of one data line: column i gets the trimmed i-th value, "" when the
\* line has none; a column name declared twice keeps its last position
MakeRow(columns, values) ==
    [col \in {columns[i] : i \in 1..Len(columns)} |->
        LET last == CHOOSE i \in 1..Len(columns) :
                        columns[i] = col /\ \A j \in (i + 1)..Len(columns) : columns[j] # col
        IN IF last <= Len(values) THEN TrimSpace(values[last]) ELSE <<>>]

\* the locals of parseALE and the file it fills, before the first line
NewScan ==
    [inHeading |-> FALSE, inData |-> FALSE, Headers |-> EmptyMap, Columns |-> <<>>,
     Rows |-> <<>>]

\* one pass of the scan loop of parseALE, on line i: the locals after it and the
\* line the next pass reads (a Column marker reads the line after it as well)
scanLine(lines, i, st) ==
    LET line == lines[i]
        trimmed == TrimSpace(line)
        parts == splitTabs(line)
        after(n, st2) == [i |-> n, st |-> st2]
    IN IF trimmed = <<>> THEN after(i + 1, st)
       ELSE IF HasPrefix(trimmed, HeaderHeading)
       THEN after(i + 1, [st EXCEPT !.inHeading = TRUE])
       ELSE IF HasPrefix(trimmed, HeaderColumn)
       THEN IF i + 1 <= Len(lines)
            THEN LET raw == splitTabs(lines[i + 1])
                     cols == [k \in 1..Len(raw) |-> TrimSpace(raw[k])]
                 IN after(i + 2, [st EXCEPT !.inHeading = FALSE, !.Columns = cols])
            ELSE after(i + 1, [st EXCEPT !.inHeading = FALSE])
       ELSE IF HasPrefix(trimmed, HeaderData)
       THEN after(i + 1, [st EXCEPT !.inData = TRUE])
       ELSE IF st.inHeading
       THEN IF Len(parts) >= 2
            THEN after(i + 1,
                       [st EXCEPT !.Headers =
                            Put(st.Headers, TrimSpace(parts[1]), TrimSpace(parts[2]))])
            ELSE after(i + 1, st)
       ELSE IF st.inData /\ Len(st.Columns) > 0
       THEN after(i + 1, [st EXCEPT !.Rows = Append(st.Rows, MakeRow(st.Columns, parts))])
       ELSE after(i + 1, st)

\* the scan loop of parseALE from line i on
RECURSIVE parseLines(_, _, _)
parseLines(lines, i, st) ==
    LET continue(r) == parseLines(lines, r.i, r.st)
    IN IF i > Len(lines) THEN st ELSE continue(scanLine(lines, i, st))

\* Decoder.parseALE: the parsed file, or an error when the reader fails
parseALE(r) ==
    LET file(st) == [Headers |-> st.Headers, Columns |-> st.Columns, Rows |-> st.Rows]
    IN IF r.fail THEN [ok |-> FALSE, aleFile |-> NewALEFile]
       ELSE [ok |-> TRUE,
             aleFile |-> file(parseLines(ScanLines(r.text), 1, NewScan))]

\* parseTrackKind that looks for "V" and "A" in the value as written
parseTrackKind_AsWritten(tracksValue) ==
    LET v == TrimSpace(tracksValue)
    IN IF ContainsChar(v, "V") /\ ContainsChar(v, "A") THEN TrackKindVideo
       ELSE IF ContainsChar(v, "A") THEN TrackKindAudio
       ELSE TrackKindVideo

\* Decoder.parseTrackKind
parseTrackKind(tracksValue) ==
    LET v == TrimSpace(ToUpper(tracksValue))
    IN IF ContainsChar(v, "V") /\ ContainsChar(v, "A") THEN TrackKindVideo
       ELSE IF ContainsChar(v, "A") THEN TrackKindAudio
       ELSE TrackKindVideo

\* compareTrackKeys
compareTrackKeys(a, b) ==
    LET aHasV == ContainsChar(a, "V")
        aHasA == ContainsChar(a, "A")
        bHasV == ContainsChar(b, "V")
        bHasA == ContainsChar(b, "A")
    IN IF aHasV /\ aHasA /\ bHasV /\ bHasA THEN Compare(a, b)
       ELSE IF aHasV /\ aHasA THEN -1
       ELSE IF bHasV /\ bHasA THEN 1
       ELSE IF aHasV /\ bHasA THEN -1
       ELSE IF aHasA /\ bHasV THEN 1
       ELSE Compare(a, b)

\* the test of a sort's inner loop: compareTrackKeys(a, b) > 0 in
\* sortTrackKeys, a > b in determineColumns
SortGreater(byTrackKey, a, b) ==
    IF byTrackKey THEN compareTrackKeys(a, b) > 0 ELSE Compare(a, b) > 0

\* for i := 0..n-1 { for j := i+1..n-1 { if greater(s[i], s[j]) { swap } } }
RECURSIVE ExchangeInner(_, _, _, _)
ExchangeInner(seq, i, j, byTrackKey) ==
    IF j > Len(seq) THEN seq
    ELSE ExchangeInner(IF SortGreater(byTrackKey, seq[i], seq[j]) THEN Swap(seq, i, j)
                       ELSE seq,
                       i, j + 1, byTrackKey)

RECURSIVE ExchangeSort(_, _, _)
ExchangeSort(seq, i, byTrackKey) ==
    IF i > Len(seq) THEN seq
    ELSE ExchangeSort(ExchangeInner(seq, i, i + 1, byTrackKey), i + 1, byTrackKey)

\* sortTrackKeys
sortTrackKeys(keys) == ExchangeSort(keys, 1, TRUE)

\* "Clip %d" of index+1
ClipNumberName(n) == <<"C", "l", "i", "p", " ">> \o NatStr(n)

\* excludeColumns without the columns of the media reference and of the CDL
excludeColumns_TimeColumnsOnly(d) ==
    {d.nameColumnKey, ColumnStart, ColumnEnd, ColumnDuration}

\* the columns rowToClip keeps out of metadata["ALE"]
excludeColumns(d) ==
    {d.nameColumnKey, ColumnStart, ColumnEnd, ColumnDuration, ColumnSourceFile, ColumnTape,
     ColumnASCSOP, ColumnASCSAT}

\* rowSourceRange that reads Duration first and Start with End only without it
rowSourceRange_DurationFirst(row, d) ==
    LET startEnd(st, en) ==
            IF ~st.ok THEN [err |-> "invalid start timecode", range |-> NoRange]
            ELSE IF ~en.ok THEN [err |-> "invalid end timecode", range |-> NoRange]
            ELSE [err |-> "",
                  range |-> NewTimeRange(st.rt, DurationFromStartEndTime(st.rt, en.rt))]
        withStart(st, dur) ==
            IF ~st.ok THEN [err |-> "invalid start timecode", range |-> NoRange]
            ELSE [err |-> "", range |-> NewTimeRange(st.rt, dur.rt)]
        fromDuration(dur, startTC) ==
            IF ~dur.ok THEN [err |-> "invalid duration", range |-> NoRange]
            ELSE IF startTC # <<>> THEN withStart(parseTimecode(startTC, d.fps), dur)
            ELSE [err |-> "", range |-> NewTimeRange(NewRationalTime(0, d.fps), dur.rt)]
        firstOk(df, dt) == IF df.ok THEN df ELSE dt
        resolve(startTC, endTC, durationStr) ==
            IF durationStr # <<>>
            THEN fromDuration(firstOk(parseFrameNumber(durationStr, d.fps),
                                      parseTimecode(durationStr, d.fps)),
                              startTC)
            ELSE IF startTC # <<>> /\ endTC # <<>>
            THEN startEnd(parseTimecode(startTC, d.fps), parseTimecode(endTC, d.fps))
            ELSE [err |-> "", range |-> NoRange]
    IN resolve(Get(row, ColumnStart), Get(row, ColumnEnd), Get(row, ColumnDuration))

\* the source range rowToClip resolves: Start and End, else Duration with an
\* optional Start, else none; err names the field that failed to parse
rowSourceRange(row, d) ==
    LET startEnd(st, en) ==
            IF ~st.ok THEN [err |-> "invalid start timecode", range |-> NoRange]
            ELSE IF ~en.ok THEN [err |-> "invalid end timecode", range |-> NoRange]
            ELSE [err |-> "",
                  range |-> NewTimeRange(st.rt, DurationFromStartEndTime(st.rt, en.rt))]
        withStart(st, dur) ==
            IF ~st.ok THEN [err |-> "invalid start timecode", range |-> NoRange]
            ELSE [err |-> "", range |-> NewTimeRange(st.rt, dur.rt)]
        fromDuration(dur, startTC) ==
            IF ~dur.ok THEN [err |-> "invalid duration", range |-> NoRange]
            ELSE IF startTC # <<>> THEN withStart(parseTimecode(startTC, d.fps), dur)
            ELSE [err |-> "", range |-> NewTimeRange(NewRationalTime(0, d.fps), dur.rt)]
        firstOk(df, dt) == IF df.ok THEN df ELSE dt
        resolve(startTC, endTC, durationStr) ==
            IF startTC # <<>> /\ endTC # <<>>
            THEN startEnd(parseTimecode(startTC, d.fps), parseTimecode(endTC, d.fps))
            ELSE IF durationStr # <<>>
            THEN fromDuration(firstOk(parseFrameNumber(durationStr, d.fps),
                                      parseTimecode(durationStr, d.fps)),
                              startTC)
            ELSE [err |-> "", range |-> NoRange]
    IN resolve(Get(row, ColumnStart), Get(row, ColumnEnd), Get(row, ColumnDuration))

\* the CDL rowToClip stores in metadata["cdl"]: an error of parseASCCDL, or no
\* CDL, leaves the clip without one
rowCDL(row) ==
    LET ascSOP == Get(row, ColumnASCSOP)
        ascSat == Get(row, ColumnASCSAT)
    IN IF ascSOP # <<>> \/ ascSat # <<>> THEN parseASCCDL(ascSOP, ascSat) ELSE NoCDL

\* rowToClip that reads Tape first and falls back to Source File
rowToClip_TapeFirst(row, index, d) ==
    LET nameOf(rowName) == IF rowName = <<>> THEN ClipNumberName(index + 1) ELSE rowName
        sourceOf(tape) ==
            IF tape = <<>> THEN Get(row, ColumnSourceFile) ELSE tape
        mediaRef(sourceFile, name, range) ==
            IF sourceFile # <<>> THEN NewExternalReference(sourceFile, sourceFile, range)
            ELSE NewMissingReference(name, range)
        result(name, sr, sourceFile, keys) ==
            IF sr.err # "" THEN [err |-> sr.err, clip |-> NilClip]
            ELSE [err |-> "",
                  clip |-> NewClip(name, mediaRef(sourceFile, name, sr.range), sr.range,
                                   NewMetadata(keys # {}, [k \in keys |-> row[k]],
                                               rowCDL(row)))]
    IN result(nameOf(Get(row, d.nameColumnKey)), rowSourceRange(row, d),
              sourceOf(Get(row, ColumnTape)),
              {k \in DOMAIN row : k \notin excludeColumns(d) /\ row[k] # <<>>})

\* Decoder.rowToClip
rowToClip(row, index, d) ==
    LET nameOf(rowName) == IF rowName = <<>> THEN ClipNumberName(index + 1) ELSE rowName
        sourceOf(sourceFile) ==
            IF sourceFile = <<>> THEN Get(row, ColumnTape) ELSE sourceFile
        mediaRef(sourceFile, name, range) ==
            IF sourceFile # <<>> THEN NewExternalReference(sourceFile, sourceFile, range)
            ELSE NewMissingReference(name, range)
        result(name, sr, sourceFile, keys) ==
            IF sr.err # "" THEN [err |-> sr.err, clip |-> NilClip]
            ELSE [err |-> "",
                  clip |-> NewClip(name, mediaRef(sourceFile, name, sr.range), sr.range,
                                   NewMetadata(keys # {}, [k \in keys |-> row[k]],
                                               rowCDL(row)))]
    IN result(nameOf(Get(row, d.nameColumnKey)), rowSourceRange(row, d),
              sourceOf(Get(row, ColumnSourceFile)),
              {k \in DOMAIN row : k \notin excludeColumns(d) /\ row[k] # <<>>})

\* the key of a row's track without the default for a blank value
trackKeyOf_Raw(row) == Get(row, ColumnTracks)

\* the key of the track a row goes to
trackKeyOf(row) ==
    IF Get(row, ColumnTracks) = <<>> THEN <<"V">> ELSE Get(row, ColumnTracks)

\* the keys of trackMap after all rows
TrackKeys(aleFile) == {trackKeyOf(aleFile.Rows[i]) : i \in 1..Len(aleFile.Rows)}

\* the conversion of the rows in which a track keeps only the clip of the row
\* that created it
convertRows_FirstClipOnly(aleFile, d, keyOrder) ==
    LET hasTracksColumn == \E i \in 1..Len(aleFile.Columns) : aleFile.Columns[i] = ColumnTracks
        result(rows, res, failed, sorted) ==
            LET firstOf(key) == CHOOSE i \in 1..Len(rows) :
                                    trackKeyOf(rows[i]) = key
                                    /\ \A j \in 1..(i - 1) : trackKeyOf(rows[j]) # key
                clipsAt(idx) == [k \in 1..Len(idx) |-> res[idx[k]].clip]
                clipsOf(key) == clipsAt(<<firstOf(key)>>)
                trackOf(key) ==
                    NewTrack(key, parseTrackKind(Get(rows[firstOf(key)], ColumnTracks)),
                             clipsOf(key))
            IN IF failed # {}
               THEN [err |-> res[CHOOSE i \in failed : \A j \in failed : i <= j].err,
                     timeline |-> NilTimeline]
               ELSE IF hasTracksColumn
               THEN [err |-> "",
                     timeline |-> NewTimeline([k \in 1..Len(sorted) |-> trackOf(sorted[k])])]
               ELSE [err |-> "",
                     timeline |-> NewTimeline(<<NewTrack(<<"V", "i", "d", "e", "o">>,
                                                       TrackKindVideo,
                                                       [i \in 1..Len(rows) |-> res[i].clip])>>)]
        converted(rows, res) ==
            result(rows, res, {i \in 1..Len(rows) : res[i].err # ""}, sortTrackKeys(keyOrder))
    IN converted(aleFile.Rows,
                 [i \in 1..Len(aleFile.Rows) |-> rowToClip(aleFile.Rows[i], i - 1, d)])

\* Decoder.aleToTimeline after its check for rows: the clips of the rows put
\* into tracks; keyOrder is the order in which ranging over trackMap yields its
\* keys
convertRows(aleFile, d, keyOrder) ==
    LET hasTracksColumn == \E i \in 1..Len(aleFile.Columns) : aleFile.Columns[i] = ColumnTracks
        result(rows, res, failed, sorted) ==
            LET firstOf(key) == CHOOSE i \in 1..Len(rows) :
                                    trackKeyOf(rows[i]) = key
                                    /\ \A j \in 1..(i - 1) : trackKeyOf(rows[j]) # key
                clipsAt(idx) == [k \in 1..Len(idx) |-> res[idx[k]].clip]
                clipsOf(key) ==
                    clipsAt(SelectSeq([i \in 1..Len(rows) |-> i],
                                      LAMBDA i : trackKeyOf(rows[i]) = key))
                trackOf(key) ==
                    NewTrack(key, parseTrackKind(Get(rows[firstOf(key)], ColumnTracks)),
                             clipsOf(key))
            IN IF failed # {}
               THEN [err |-> res[CHOOSE i \in failed : \A j \in failed : i <= j].err,
                     timeline |-> NilTimeline]
               ELSE IF hasTracksColumn
               THEN [err |-> "",
                     timeline |-> NewTimeline([k \in 1..Len(sorted) |-> trackOf(sorted[k])])]
               ELSE [err |-> "",
                     timeline |-> NewTimeline(<<NewTrack(<<"V", "i", "d", "e", "o">>,
                                                       TrackKindVideo,
                                                       [i \in 1..Len(rows) |-> res[i].clip])>>)]
        converted(rows, res) ==
            result(rows, res, {i \in 1..Len(rows) : res[i].err # ""}, sortTrackKeys(keyOrder))
    IN converted(aleFile.Rows,
                 [i \in 1..Len(aleFile.Rows) |-> rowToClip(aleFile.Rows[i], i - 1, d)])

\* aleToTimeline without its check for rows
aleToTimeline_NoRowsCheck(aleFile, d, keyOrder) == convertRows(aleFile, d, keyOrder)

\* Decoder.aleToTimeline
aleToTimeline(aleFile, d, keyOrder) ==
    IF Len(aleFile.Rows) = 0
    THEN [err |-> "no data rows in ALE file", timeline |-> NilTimeline]
    ELSE convertRows(aleFile, d, keyOrder)

\* Decode that never assigns the decoder's fps and dropFrame from the header
Decode_ConfiguredRate(r, d, keyOrder) ==
    LET result(t, aleFile) ==
            [err |-> t.err, timeline |-> t.timeline, d |-> d, aleFile |-> aleFile]
        parsed(p) ==
            IF ~p.ok
            THEN [err |-> "failed to parse ALE", timeline |-> NilTimeline, d |-> d,
                  aleFile |-> p.aleFile]
            ELSE result(aleToTimeline(p.aleFile, d, keyOrder), p.aleFile)
    IN parsed(parseALE(r))

\* Decoder.Decode: the error, the timeline, the decoder after the call (its fps
\* and dropFrame fields are assigned from the FPS header) and the parsed file
Decode(r, d, keyOrder) ==
    LET result(t, d2, aleFile) ==
            [err |-> t.err, timeline |-> t.timeline, d |-> d2, aleFile |-> aleFile]
        configured(aleFile, hdr) ==
            IF HeaderFPS \in DOMAIN aleFile.Headers /\ hdr.ok
            THEN [d EXCEPT !.fps = hdr.fps, !.dropFrame = isDropFrame(hdr.fps)]
            ELSE d
        convert(aleFile, d2) == result(aleToTimeline(aleFile, d2, keyOrder), d2, aleFile)
        parsed(p) ==
            IF ~p.ok
            THEN [err |-> "failed to parse ALE", timeline |-> NilTimeline, d |-> d,
                  aleFile |-> p.aleFile]
            ELSE convert(p.aleFile,
                         configured(p.aleFile, parseFPS(Get(p.aleFile.Headers, HeaderFPS))))
    IN parsed(parseALE(r))

\* the key orders Decode may meet for the text of a reader
DecodeKeyOrders(r) == Orders(TrackKeys(parseALE(r).aleFile))

\* ---------------------------------------------------------------- encoder

\* NewEncoder with its options applied; columns is empty when WithColumns is
\* not given
NewEncoder(fps, dropFrame, columns) == [fps |-> fps, dropFrame |-> dropFrame, columns |-> columns]

ImageSizeKey == <<"I", "m", "a", "g", "e", " ", "S", "i", "z", "e">>

\* the loop of inferVideoFormat: the size with the largest height so far
RECURSIVE maxImageSize(_, _, _)
maxImageSize(clips, maxWidth, maxHeight) ==
    LET next(md, sz) ==
            IF md.hasALE /\ ImageSizeKey \in DOMAIN md.ALE /\ sz.ok /\ sz.height > maxHeight
            THEN maxImageSize(Tail(clips), sz.width, sz.height)
            ELSE maxImageSize(Tail(clips), maxWidth, maxHeight)
    IN IF clips = <<>> THEN [width |-> maxWidth, height |-> maxHeight]
       ELSE next(Head(clips).metadata,
                 parseImageSize(Get(Head(clips).metadata.ALE, ImageSizeKey)))

\* Encoder.inferVideoFormat
inferVideoFormat(clips) ==
    LET result(m) ==
            IF m.height > 0 THEN videoFormatFromDimensions(m.width, m.height)
            ELSE <<"1", "0", "8", "0">>
    IN result(maxImageSize(clips, 0, 0))

\* the extraColumns set of determineColumns
extraColumns(clips) ==
    UNION {
        LET c == clips[i]
        IN (IF c.mediaRef.kind = "external" /\ c.mediaRef.target # <<>>
            THEN {ColumnSourceFile} ELSE {})
           \cup (IF c.metadata.hasALE THEN DOMAIN c.metadata.ALE ELSE {})
           \cup (IF c.metadata.cdl.some /\ c.metadata.cdl.ASCSOP.some
                 THEN {ColumnASCSOP} ELSE {})
           \cup (IF c.metadata.cdl.some /\ c.metadata.cdl.ASCSat.some
                 THEN {ColumnASCSAT} ELSE {})
        : i \in 1..Len(clips)}

\* determineColumns that appends Tracks whatever tracks the timeline has
determineColumns_TracksAlways(timeline, e) ==
    LET base == <<ColumnName, ColumnStart, ColumnEnd, ColumnDuration>>
        cols == Append(base, ColumnTracks)
        extraCols == ExchangeSort(SomeOrder(extraColumns(FindClips(timeline))), 1, FALSE)
    IN IF Len(e.columns) > 0 THEN e.columns ELSE cols \o extraCols

\* Encoder.determineColumns.  The extra columns are sorted with a > b, a total
\* order, so the order in which the map yields them does not show in the result
determineColumns(timeline, e) ==
    LET base == <<ColumnName, ColumnStart, ColumnEnd, ColumnDuration>>
        hasVideo == Len(VideoTracks(timeline)) > 0
        hasAudio == Len(AudioTracks(timeline)) > 0
        cols == IF hasVideo \/ hasAudio THEN Append(base, ColumnTracks) ELSE base
        extraCols == ExchangeSort(SomeOrder(extraColumns(FindClips(timeline))), 1, FALSE)
    IN IF Len(e.columns) > 0 THEN e.columns ELSE cols \o extraCols

\* the value clipToRow gives one column: whether the row gets an entry, the
\* entry, and whether formatting failed
columnValue(clip, col, e) ==
    LET sourceRange == IF clip.sourceRange.some THEN clip.sourceRange
                       ELSE clip.mediaRef.availableRange
        md == clip.metadata
        set(v) == [has |-> TRUE, val |-> v, err |-> ""]
        unset == [has |-> FALSE, val |-> <<>>, err |-> ""]
        formatted(r, m) ==
            IF r.ok THEN [has |-> TRUE, val |-> r.tc, err |-> ""]
            ELSE [has |-> FALSE, val |-> <<>>, err |-> m]
    IN IF col = ColumnName THEN set(clip.name)
       ELSE IF col = ColumnStart
       THEN IF ~sourceRange.some THEN unset
            ELSE formatted(formatTimecode(sourceRange.start, e.fps, e.dropFrame),
                           "failed to format start timecode")
       ELSE IF col = ColumnEnd
       THEN IF ~sourceRange.some THEN unset
            ELSE formatted(formatTimecode(EndTimeExclusive(sourceRange), e.fps, e.dropFrame),
                           "failed to format end timecode")
       ELSE IF col = ColumnDuration
       THEN IF sourceRange.some THEN set(formatFrameNumber(sourceRange.duration, e.fps))
            ELSE unset
       ELSE IF col = ColumnTracks THEN set(<<"V">>)
       ELSE IF col \in {ColumnSourceFile, ColumnTape}
       THEN IF clip.mediaRef.kind = "external" THEN set(clip.mediaRef.target) ELSE unset
       ELSE IF col = ColumnASCSOP
       THEN IF md.cdl.some /\ md.cdl.ASCSOP.some THEN set(formatASCSOP(md.cdl.ASCSOP))
            ELSE unset
       ELSE IF col = ColumnASCSAT
       THEN IF md.cdl.some /\ md.cdl.ASCSat.some THEN set(Fmt1(md.cdl.ASCSat.val)) ELSE unset
       ELSE IF md.hasALE /\ col \in DOMAIN md.ALE THEN set(md.ALE[col])
       ELSE unset

\* Encoder.clipToRow: the row, or the error of the first column that fails
clipToRow(clip, columns, e) ==
    LET result(vals, failed) ==
            IF failed # {}
            THEN [err |-> vals[CHOOSE i \in failed : \A j \in failed : i <= j].err,
                  row |-> EmptyMap]
            ELSE [err |-> "",
                  row |-> [k \in {columns[i] : i \in {j \in 1..Len(columns) : vals[j].has}} |->
                              vals[CHOOSE i \in 1..Len(columns) : columns[i] = k].val]]
        filled(vals) == result(vals, {i \in 1..Len(columns) : vals[i].err # ""})
    IN filled([i \in 1..Len(columns) |-> columnValue(clip, columns[i], e)])

\* Encoder.timelineToALE
timelineToALE(timeline, e) ==
    LET headers(clips) ==
            Put(Put(Put(Put(EmptyMap, HeaderFieldDelim, DefaultFieldDelim),
                        HeaderAudioFormat, <<"4", "8", "k", "H", "z">>),
                    HeaderFPS, FormatFPS(e.fps)),
                HeaderVideoFormat, inferVideoFormat(clips))
        result(clips, columns, res) ==
            IF \E i \in 1..Len(clips) : res[i].err # ""
            THEN [err |-> "failed to convert timeline to ALE", aleFile |-> NewALEFile]
            ELSE [err |-> "",
                  aleFile |-> [Headers |-> headers(clips), Columns |-> columns,
                               Rows |-> [i \in 1..Len(clips) |-> res[i].row]]]
        converted(clips, columns) ==
            result(clips, columns, [i \in 1..Len(clips) |-> clipToRow(clips[i], columns, e)])
    IN converted(FindClips(timeline), determineColumns(timeline, e))

\* Encoder.writeALE: the bytes of the one Write; headerOrder is the order in
\* which ranging over aleFile.Headers yields its keys
writeALE(aleFile, headerOrder) ==
    LET headerLines == [i \in 1..Len(headerOrder) |->
                           headerOrder[i] \o <<TAB>> \o aleFile.Headers[headerOrder[i]]]
        rowLines == [i \in 1..Len(aleFile.Rows) |->
                        joinTabs([k \in 1..Len(aleFile.Columns) |->
                                     Get(aleFile.Rows[i], aleFile.Columns[k])])]
        lines == <<HeaderHeading>> \o headerLines \o <<<<>>>>
                     \o <<HeaderColumn, joinTabs(aleFile.Columns), <<>>>>
                     \o <<HeaderData>> \o rowLines
        terminated(output) ==
            IF HasSuffix(output, <<NL>>) THEN output ELSE output \o <<NL>>
    IN terminated(Join(lines, <<NL>>))

\* Encode that writes the Heading marker before it converts the timeline
Encode_WritesHeadingFirst(timeline, e, headerOrder) ==
    LET result(a) ==
            IF a.err # "" THEN [err |-> a.err, written |-> HeaderHeading \o <<NL>>]
            ELSE [err |-> "", written |-> writeALE(a.aleFile, headerOrder)]
    IN IF timeline.nil THEN [err |-> "timeline cannot be nil", written |-> <<>>]
       ELSE result(timelineToALE(timeline, e))

\* Encoder.Encode: the error it returns and the bytes the writer has received
Encode(timeline, e, headerOrder) ==
    LET result(a) ==
            IF a.err # "" THEN [err |-> a.err, written |-> <<>>]
            ELSE [err |-> "", written |-> writeALE(a.aleFile, headerOrder)]
    IN IF timeline.nil THEN [err |-> "timeline cannot be nil", written |-> <<>>]
       ELSE result(timelineToALE(timeline, e))

\* the orders in which the four headers of timelineToALE may be written
HeaderOrders == Orders({HeaderFieldDelim, HeaderAudioFormat, HeaderFPS, HeaderVideoFormat})

\* ----------------------------------------------------------- the inputs

\* the most data rows of a modelled file
MaxRows == 2

sClip001 == <<"C", "l", "i", "p", "0", "0", "1">>
sClip002 == <<"C", "l", "i", "p", "0", "0", "2">>
sScene == <<"S", "c", "e", "n", "e">>
sSc1 == <<"S", "c", "1">>
sT1 == <<"T", "1">>
sMov == <<"/", "m", ".", "m", "o", "v">>
sAbc == <<"a", "b", "c">>
sTC0 == <<"0", "1", ":", "0", "0", ":", "0", "0", ":", "0", "0">>
sTC1 == <<"0", "1", ":", "0", "0", ":", "0", "5", ":", "0", "0">>
sTC2 == <<"0", "0", ":", "0", "0", ":", "0", "2", ":", "0", "0">>
sTCDrop == <<"0", "0", ":", "0", "1", ":", "0", "0", ";", "0", "2">>
sSOP == <<"(", "1", " ", "1", " ", "1", ")", "(", "0", " ", "0", " ", "0", ")", "(", "1", " ", "1", " ", "1", ".", "5", ")">>
sSOPShort == <<"(", "1", " ", "1", ")", "(", "0", " ", "0", ")">>
sSOPBad == <<"(", "1", " ", "1", " ", "1", ")", "(", "0", " ", "x", " ", "0", ")", "(", "1", " ", "1", " ", "1", ")">>

Str(n) == NatStr(n)

\* stands for a Heading section without an FPS line
NoFPSLine == <<"no FPS line">>

\* the lines of the Heading section: the marker, FIELD_DELIM, an FPS line when
\* fps is not NoFPSLine, a blank line
HeadingLines(fps) ==
    <<HeaderHeading, joinTabs(<<HeaderFieldDelim, DefaultFieldDelim>>)>>
        \o (IF fps = NoFPSLine THEN <<>> ELSE <<joinTabs(<<HeaderFPS, fps>>)>>)
        \o <<<<>>>>

\* the text of a file: its lines, each ended by "\n"
TextOf(lines) == IF lines = <<>> THEN <<>> ELSE Join(lines, <<NL>>) \o <<NL>>

\* a file in the usual layout, and files that lack a part of it
FileText(shape, fps, columns, rows) ==
    LET dataLines == [i \in 1..Len(rows) |-> joinTabs(rows[i])]
    IN TextOf(
        CASE shape = "full" ->
               HeadingLines(fps) \o <<HeaderColumn, joinTabs(columns), <<>>, HeaderData>>
                   \o dataLines
          [] shape = "noData" ->
               HeadingLines(fps) \o <<HeaderColumn, joinTabs(columns), <<>>>> \o dataLines
          [] shape = "noColumn" -> HeadingLines(fps) \o <<HeaderData>> \o dataLines
          [] shape = "columnLast" -> HeadingLines(fps) \o <<HeaderData>> \o dataLines
                                         \o <<HeaderColumn>>
          [] shape = "dataOnly" -> <<HeaderData>> \o dataLines
          [] shape = "empty" -> <<>>)

\* the values the FPS header takes in the modelled files
FPSHeaders ==
    {NoFPSLine, <<"2", "4", ".", "0", "0">>, <<"2", "9", ".", "9", "7">>, <<"3", "0">>, sAbc,
     <<"0">>, <<"-", "1", "0">>, <<>>}

\* Name, Start, End, Duration rows: valid ones, and ones with a field that is
\* neither a timecode nor a number
TimeColumns == <<ColumnName, ColumnStart, ColumnEnd, ColumnDuration>>

ValidTimeRows ==
    {<<sClip001, sTC0, sTC1, Str(120)>>,
     <<sClip002, Str(100), Str(150), <<>>>>,
     <<sClip001, <<>>, <<>>, Str(100)>>,
     <<sClip002, Str(10), <<>>, sTC2>>,
     <<<<>>, <<>>, <<>>, <<>>>>}

OddTimeRows ==
    {<<sClip001, sAbc, sTC1, Str(120)>>,
     <<sClip001, sTC0, sAbc, Str(120)>>,
     <<sClip001, sTC0, sTC1, sAbc>>,
     <<sClip001, <<>>, <<>>, sAbc>>,
     <<sClip001, sAbc, <<>>, <<>>>>,
     <<sClip001, sAbc, <<>>, Str(100)>>,
     <<sClip001, <<>>, sAbc, Str(100)>>,
     <<sClip001, sTCDrop, <<>>, Str(100)>>}

\* rows whose End is earlier than their Start, or whose Duration is negative
BackwardTimeRows ==
    {<<sClip001, sTC1, sTC0, <<>>>>,
     <<sClip002, <<>>, <<>>, <<"-", "5">>>>,
     <<sClip002, Str(10), <<>>, <<"-", "5">>>>}

\* the values of the Tracks column, and the Name, Tracks rows of a file: the
\* i-th row is named Ci
TrackValues ==
    {<<"V">>, <<"A", "1">>, <<"V", "A", "1">>, <<"v", "a", "1">>, <<"V", "2">>, <<>>, sT1,
     <<"a", "1">>}

TrackColumns == <<ColumnName, ColumnTracks>>

TrackRowLists ==
    UNION {{[i \in 1..n |-> <<<<"C">> \o Str(i), v[i]>>] : v \in [1..n -> TrackValues]} :
              n \in 1..MaxRows}

\* Name, Duration, Tracks, Scene, Tape, Source File, ASC_SOP, ASC_SAT rows
WideColumns ==
    <<ColumnName, ColumnDuration, ColumnTracks, sScene, ColumnTape, ColumnSourceFile,
      ColumnASCSOP, ColumnASCSAT>>

WideRows ==
    {<<sClip001, Str(100), <<"V">>, sSc1, sT1, <<>>, sSOP, <<"0", ".", "9">>>>,
     <<sClip002, Str(100), <<"A", "1">>, <<>>, sT1, sMov, <<>>, <<>>>>,
     <<sClip001, Str(100), <<>>, sSc1, <<>>, <<>>, sSOPShort, <<>>>>,
     <<sClip001, Str(100), <<"V", "A", "1">>, <<>>, <<>>, <<>>, sSOPBad, <<"0", ".", "9">>>>,
     <<sClip002, Str(100), <<"V">>, <<>>, <<>>, sMov, <<>>, sAbc>>}

\* the row lists of a file: up to MaxRows rows, the last of them any row, the
\* ones before it valid rows
RowLists(valid, all) ==
    UNION {{pre \o <<last>> : pre \in [1..n -> valid], last \in all} : n \in 0..(MaxRows - 1)}
        \cup {<<>>}

\* the lines of the files given to the scan loop of parseALE: header lines
\* (one of them starts with the word Column, one has no tab), lines of column
\* names (one names a column twice), data lines (one starts with the word Data,
\* one is short, one is long and padded with spaces, one is blank)
sData01 == HeaderData \o <<"0", "1">>
sColumnsA == HeaderColumn \o <<"s", "_", "A">>
s25 == <<"2", "5">>

ScanHeaderLines == {joinTabs(<<HeaderFPS, s25>>), joinTabs(<<sColumnsA, sAbc>>), sAbc}

ScanColumnLines ==
    {joinTabs(<<ColumnName, ColumnTracks>>),
     joinTabs(<<<<" ">> \o ColumnName \o <<" ">>, ColumnTracks, sScene>>),
     joinTabs(<<ColumnName, ColumnName>>)}

ScanDataLines ==
    {joinTabs(<<sClip001, <<"V">>>>),
     joinTabs(<<sData01, <<"V">>>>),
     sClip002,
     joinTabs(<<<<" ">> \o sClip001 \o <<" ">>, <<" ", "A", "1", " ">>, sSc1, sAbc>>),
     <<" ">>}

\* a file in the usual layout
UsualLines(header, columns, dataLines) ==
    <<HeaderHeading, header, <<>>, HeaderColumn, columns, <<>>, HeaderData>> \o dataLines

\* files whose markers are repeated, out of order or missing, and a file with
\* a blank line between the Column marker and the column names
RepeatedColumnLines ==
    <<HeaderHeading, joinTabs(<<HeaderFPS, s25>>),
      HeaderColumn, joinTabs(<<ColumnName, sScene>>), HeaderData, joinTabs(<<sClip001, sSc1>>),
      HeaderColumn, joinTabs(<<ColumnName, ColumnTracks>>), HeaderData,
      joinTabs(<<sClip002, <<"V">>>>)>>

HeadingAfterColumnLines ==
    <<HeaderColumn, joinTabs(<<ColumnName, ColumnTracks>>), HeaderHeading, HeaderData,
      joinTabs(<<sClip001, <<"V">>>>)>>

BlankAfterColumnLines ==
    <<HeaderHeading, joinTabs(<<HeaderFPS, s25>>), HeaderColumn, <<>>,
      joinTabs(<<ColumnName, ColumnTracks>>), HeaderData, joinTabs(<<sClip001, <<"V">>>>)>>

OddLayouts ==
    {RepeatedColumnLines, HeadingAfterColumnLines, BlankAfterColumnLines,
     <<HeaderData, joinTabs(<<sClip001, <<"V">>>>)>>,
     <<HeaderHeading, HeaderData, joinTabs(<<sClip001, <<"V">>>>), HeaderColumn>>,
     <<>>}

\* ASC_SOP values: the three of the rows above, one with a tenth token that is
\* no number, one with ten numbers, one with blanks inside the parentheses,
\* one without parentheses, one with a sign and a fraction in every triple
sSOPExtra == sSOP \o <<" ", "x">>

sSOPTen == sSOP \o <<" ", "2">>

sSOPSpaced ==
    <<"(", " ", "1", " ", " ", "1", " ", "1", " ", ")", " ", "(", "0", " ", "0", " ", "0", ")", " ",
      "(", "1", " ", "1", " ", "1", ")">>

sSOPPlain == <<"2", " ", "1", " ", "1", " ", "0", " ", "0", " ", "0", " ", "1", " ", "1", " ", "3">>

sSOPSigned ==
    <<"(", "0", ".", "8", " ", "1", " ", "1", ")", "(", "-", "0", ".", "1", " ", "0", " ", "0", ")",
      "(", "1", " ", "1", ".", "2", " ", "1", ")">>

SOPTexts ==
    {sSOP, sSOPShort, sSOPBad, sSOPExtra, sSOPTen, sSOPSpaced, sSOPPlain, sSOPSigned}

SOPColumns == <<ColumnName, ColumnASCSOP>>

\* FPS header values at and around the two drop-frame rates
DropFrameHeaders ==
    {<<"2", "9", ".", "9", "6">>, <<"2", "9", ".", "9", "7">>, <<"2", "9", ".", "9", "8">>,
     <<"5", "9", ".", "9", "3">>, <<"5", "9", ".", "9", "4">>, <<"5", "9", ".", "9", "5">>,
     <<"2", "9", ".", "9", "6", "5">>, <<"5", "9", ".", "9", "4", "9">>,
     <<"2", "4">>, <<"2", "5">>, <<"3", "0">>, <<"6", "0">>,
     <<"2", "3", ".", "9", "7", "6">>, <<"5", "0">>}

\* three rows on the tracks V, A1 and T1
ThreeTrackRows ==
    <<<<<<"C", "1">>, <<"V">>>>, <<<<"C", "2">>, <<"A", "1">>>>, <<<<"C", "3">>, sT1>>>>

\* the texts Decode reads for the CDL, the drop-frame and the three-track
\* cases
CaseTexts ==
    {FileText("full", NoFPSLine, TrackColumns, ThreeTrackRows)} \cup
    {FileText("full", NoFPSLine, SOPColumns, <<<<sClip001, sop>>>>) : sop \in SOPTexts}
    \cup {FileText("full", fps, TimeColumns, <<<<sClip002, Str(100), Str(150), <<>>>>>>) :
              fps \in DropFrameHeaders}

ScanTexts ==
    {TextOf(UsualLines(h, c, d)) :
        h \in ScanHeaderLines, c \in ScanColumnLines,
        d \in UNION {[1..n -> ScanDataLines] : n \in 0..MaxRows}}
    \cup {TextOf(lines) : lines \in OddLayouts}

DecodeTexts ==
    {FileText("full", fps, TimeColumns, rows) :
        fps \in FPSHeaders, rows \in RowLists({<<sClip001, sTC0, sTC1, Str(120)>>},
                                             ValidTimeRows \cup OddTimeRows)}
    \cup {FileText("full", NoFPSLine, TimeColumns, rows) :
        rows \in RowLists({<<sClip001, sTC0, sTC1, Str(120)>>}, BackwardTimeRows)}
    \cup {FileText("full", NoFPSLine, TrackColumns, rows) : rows \in TrackRowLists}
    \cup {TextOf(RepeatedColumnLines)}
    \cup CaseTexts
    \cup {FileText("full", fps, WideColumns, rows) :
        fps \in {NoFPSLine, <<"2", "9", ".", "9", "7">>}, rows \in RowLists(WideRows, WideRows)}
    \cup {FileText(shape, fps, TimeColumns, <<<<sClip001, sTC0, sTC1, Str(120)>>>>) :
        shape \in {"noData", "noColumn", "columnLast", "dataOnly", "empty"}, fps \in {NoFPSLine, <<"3", "0">>}}

\* the decoders: the default one, WithNameColumn("Scene"), WithFPS(30),
\* WithFPS(29.97) with WithDropFrame(true), WithDropFrame(true) alone
Decoders ==
    {NewDecoder(DefaultFPS, ColumnName, FALSE),
     NewDecoder(DefaultFPS, sScene, FALSE),
     NewDecoder(30000, ColumnName, FALSE),
     NewDecoder(29970, ColumnName, TRUE),
     NewDecoder(DefaultFPS, ColumnName, TRUE)}

\* the most clips of a modelled track
MaxClips == 2

\* the frames around each timecode boundary that are formatted and parsed
MaxDelta == 2

Range24(start, duration) ==
    NewTimeRange(NewRationalTime(start, DefaultFPS), NewRationalTime(duration, DefaultFPS))

NoMetadata == NewMetadata(FALSE, EmptyMap, NoCDL)

\* the clips given to Encode: a plain one, one with a media file, residual
\* metadata and a CDL, one that starts before zero, one without any range, one
\* without a name, one whose name starts with a section marker
PlainClip == NewClip(sClip001, NewMissingReference(<<>>, NoRange), Range24(100, 50), NoMetadata)

GradedClip ==
    NewClip(sClip002, NewExternalReference(<<>>, sMov, NoRange), Range24(86400, 120),
            NewMetadata(TRUE, (sScene :> sSc1),
                        [some |-> TRUE,
                         ASCSOP |-> [some |-> TRUE, Slope |-> <<10000, 10000, 10000>>,
                                     Offset |-> <<0, -500, 0>>, Power |-> <<10000, 10000, 15000>>],
                         ASCSat |-> [some |-> TRUE, val |-> 9000]]))

NegativeClip ==
    NewClip(sClip002, NewMissingReference(<<>>, NoRange), Range24(-10, 50), NoMetadata)

RangelessClip == NewClip(sClip002, NewMissingReference(<<>>, NoRange), NoRange, NoMetadata)

NamelessClip == NewClip(<<>>, NewMissingReference(<<>>, NoRange), Range24(0, 24), NoMetadata)

MarkerNamedClip ==
    NewClip(HeaderData \o <<"0", "1">>, NewMissingReference(<<>>, NoRange), Range24(0, 24),
            NoMetadata)

\* a clip with a media file whose residual metadata has the keys Tracks and
\* Source File
TaggedClip ==
    NewClip(sClip001, NewExternalReference(<<>>, sMov, NoRange), Range24(0, 24),
            NewMetadata(TRUE, (ColumnTracks :> <<"A", "1">> @@ ColumnSourceFile :> sT1), NoCDL))

EncodeClips ==
    {PlainClip, GradedClip, NegativeClip, RangelessClip, NamelessClip, MarkerNamedClip}

ClipLists == UNION {[1..n -> EncodeClips] : n \in 1..MaxClips}

\* the timelines given to Encode: nil, one without tracks, one with a track
\* that is neither video nor audio, one video track of up to MaxClips clips, a
\* video track and an audio track
Timelines ==
    {NilTimeline, NewTimeline(<<>>),
     NewTimeline(<<NewTrack(<<"X">>, "Other", <<PlainClip>>)>>),
     NewTimeline(<<NewTrack(<<"V">>, TrackKindVideo, <<TaggedClip, GradedClip>>)>>)}
        \cup {NewTimeline(<<NewTrack(<<"V">>, TrackKindVideo, clips)>>) : clips \in ClipLists}
        \cup {NewTimeline(<<NewTrack(<<"V">>, TrackKindVideo, <<PlainClip>>),
                            NewTrack(<<"A", "1">>, TrackKindAudio, <<GradedClip>>)>>)}

\* the encoders: the default one, WithColumns of the four time columns,
\* WithFPS(29.97) with WithDropFrame(true), WithDropFrame(true) alone
Encoders ==
    {NewEncoder(DefaultFPS, FALSE, <<>>),
     NewEncoder(DefaultFPS, FALSE, TimeColumns),
     NewEncoder(29970, TRUE, <<>>),
     NewEncoder(DefaultFPS, TRUE, <<>>)}

\* the blank lines put into a file, and a file with one more line after its
\* first k lines
BlankLines == {<<>>, <<" ">>, <<TAB>>}

InsertLine(lines, k, line) == SubSeq(lines, 1, k) \o <<line>> \o SubSeq(lines, k + 1, Len(lines))

\* the files a blank line is put into
EditedLines ==
    {UsualLines(joinTabs(<<HeaderFPS, s25>>), c, d) :
        c \in {joinTabs(<<ColumnName, ColumnTracks>>), joinTabs(<<ColumnName, ColumnDuration>>)},
        d \in UNION {[1..n -> {joinTabs(<<sClip001, <<"V">>>>), joinTabs(<<sClip002, Str(100)>>)}] :
                        n \in 0..MaxRows}}

\* the rates at which timecode is formatted and parsed
TimecodeRates == {23976, 24000, 25000, 29970, 30000, 59940}

\* the frame counts: those within MaxDelta of zero, one minute, ten minutes, one
\* hour and 24 hours of frames
TimecodeFrames(rate) ==
    {a + k : a \in {0, NominalFPS(rate) * 60, (rate * 600 + 500) \div 1000,
                    (rate * 3600 + 500) \div 1000, FramesPer24Hours(rate)},
             k \in (-MaxDelta)..MaxDelta} \cap Nat

\* -------------------------------------------------------------- the state

\* a Decode, Encode, formatTimecode or parseTimecode call that has not been made
NoDecode ==
    [err |-> "not called", timeline |-> NilTimeline,
     d |-> NewDecoder(0, <<>>, FALSE), aleFile |-> NewALEFile]

NoEncode == [err |-> "not called", written |-> <<>>]

\* the scan loop of parseALE before its first pass
NoScan == [i |-> 1, st |-> NewScan]

NoTimecode == [ok |-> FALSE, tc |-> <<>>]

NoTime == [ok |-> FALSE, rt |-> NewRationalTime(0, 0)]

VARIABLES
    pc,         \* where the caller is: "start", "decoded", "encoded", ...
    reader,     \* the io.Reader given to NewDecoder
    dcfg,       \* the Decoder as NewDecoder returned it
    dec,        \* what Decode returned, and the Decoder after it
    tl,         \* the timeline given to Encode
    ecfg,       \* the Encoder as NewEncoder returned it
    enc,        \* what Encode returned, and the bytes its writer holds
    enc2,       \* the same for a second Encode of the same timeline
    dec2,       \* what a Decode of the re-encoded or edited text returned
    reader2,    \* the io.Reader of a second decoder, on an edited text
    scan,       \* parseALE at the top of its scan loop: the next line, its locals
    tcase,      \* the frame count, rate and dropFrame given to formatTimecode
    formatted,  \* what formatTimecode returned
    parsed      \* what parseTimecode returned for the formatted text

decodeVars == <<reader, dcfg, dec, dec2, reader2, scan>>
encodeVars == <<tl, ecfg, enc, enc2>>
timecodeVars == <<tcase, formatted, parsed>>
vars ==
    <<pc, reader, dcfg, dec, tl, ecfg, enc, enc2, dec2, reader2, scan, tcase, formatted, parsed>>

\* no decoder, no encoder, no timecode yet
IdleDecode ==
    /\ reader = NewReader(<<>>, FALSE)
    /\ dcfg = NewDecoder(DefaultFPS, ColumnName, FALSE)
    /\ dec = NoDecode
    /\ dec2 = NoDecode
    /\ reader2 = NewReader(<<>>, FALSE)
    /\ scan = NoScan

IdleEncode ==
    /\ tl = NilTimeline
    /\ ecfg = NewEncoder(DefaultFPS, FALSE, <<>>)
    /\ enc = NoEncode
    /\ enc2 = NoEncode

IdleTimecode ==
    /\ tcase = [f |-> 0, rate |-> DefaultFPS, dropFrame |-> FALSE]
    /\ formatted = NoTimecode
    /\ parsed = NoTime

\* ---- a caller that decodes one file

InitDecode ==
    /\ pc = "start"
    /\ reader \in {NewReader(t, FALSE) : t \in DecodeTexts}
                      \cup {NewReader(FileText("full", NoFPSLine, TimeColumns, rows), TRUE) :
                               rows \in {<<>>, <<<<sClip001, sTC0, sTC1, Str(120)>>>>}}
    /\ dcfg \in Decoders
    /\ dec = NoDecode
    /\ dec2 = NoDecode
    /\ reader2 = NewReader(<<>>, FALSE)
    /\ scan = NoScan
    /\ IdleEncode
    /\ IdleTimecode

\* decoder.Decode()
DecodeCall ==
    /\ pc = "start"
    /\ \E keyOrder \in DecodeKeyOrders(reader) : dec' = Decode(reader, dcfg, keyOrder)
    /\ pc' = "decoded"
    /\ UNCHANGED <<reader, dcfg, dec2, reader2, scan, encodeVars, timecodeVars>>

NextDecode == DecodeCall

SpecDecode == InitDecode /\ [][NextDecode]_vars

\* ---- a caller that encodes a timeline and decodes what was written

InitRoundTrip ==
    /\ pc = "start"
    /\ tl \in Timelines
    /\ ecfg \in Encoders
    /\ enc = NoEncode
    /\ enc2 = NoEncode
    /\ IdleDecode
    /\ IdleTimecode

\* encoder.Encode(timeline)
EncodeCall ==
    /\ pc = "start"
    /\ \E headerOrder \in HeaderOrders : enc' = Encode(tl, ecfg, headerOrder)
    /\ pc' = "encoded"
    /\ UNCHANGED <<tl, ecfg, enc2, decodeVars, timecodeVars>>

\* NewDecoder on the written bytes, at the encoder's rate, and Decode
DecodeWritten ==
    /\ pc = "encoded"
    /\ enc.err = ""
    /\ reader' = NewReader(enc.written, FALSE)
    /\ dcfg' = NewDecoder(ecfg.fps, ColumnName, ecfg.dropFrame)
    /\ \E keyOrder \in DecodeKeyOrders(reader') : dec' = Decode(reader', dcfg', keyOrder)
    /\ pc' = "round trip"
    /\ UNCHANGED <<dec2, reader2, scan, encodeVars, timecodeVars>>

NextRoundTrip == EncodeCall \/ DecodeWritten

SpecRoundTrip == InitRoundTrip /\ [][NextRoundTrip]_vars

\* ---- a caller that encodes the same timeline twice

InitEncodeTwice ==
    /\ pc = "start"
    /\ tl \in {t \in Timelines : Len(FindClips(t)) <= 1}
    /\ ecfg \in Encoders
    /\ enc = NoEncode
    /\ enc2 = NoEncode
    /\ IdleDecode
    /\ IdleTimecode

\* a second encoder.Encode(timeline) with the same options
EncodeAgain ==
    /\ pc = "encoded"
    /\ \E headerOrder \in HeaderOrders : enc2' = Encode(tl, ecfg, headerOrder)
    /\ pc' = "encoded twice"
    /\ UNCHANGED <<tl, ecfg, enc, decodeVars, timecodeVars>>

NextEncodeTwice == EncodeCall \/ EncodeAgain

SpecEncodeTwice == InitEncodeTwice /\ [][NextEncodeTwice]_vars

\* ---- a caller that decodes a file, encodes the timeline and decodes again

InitReencode ==
    /\ pc = "start"
    /\ reader \in {NewReader(FileText("full", fps, WideColumns, rows), FALSE) :
                      fps \in {NoFPSLine, <<"2", "9", ".", "9", "7">>},
                      rows \in RowLists(WideRows, WideRows)}
                  \cup {NewReader(FileText("full", NoFPSLine, TimeColumns, rows), FALSE) :
                      rows \in RowLists(ValidTimeRows, ValidTimeRows \cup OddTimeRows)}
    /\ dcfg = NewDecoder(DefaultFPS, ColumnName, FALSE)
    /\ dec = NoDecode
    /\ dec2 = NoDecode
    /\ reader2 = NewReader(<<>>, FALSE)
    /\ scan = NoScan
    /\ IdleEncode
    /\ IdleTimecode

\* NewEncoder at the decoder's rate, and Encode of the decoded timeline
EncodeDecoded ==
    /\ pc = "decoded"
    /\ dec.err = ""
    /\ tl' = dec.timeline
    /\ ecfg' = NewEncoder(dec.d.fps, dec.d.dropFrame, <<>>)
    /\ \E headerOrder \in HeaderOrders : enc' = Encode(tl', ecfg', headerOrder)
    /\ pc' = "reencoded"
    /\ UNCHANGED <<enc2, decodeVars, timecodeVars>>

\* NewDecoder on the written bytes, with the first decoder's options, and Decode
DecodeAgain ==
    /\ pc = "reencoded"
    /\ enc.err = ""
    /\ \E keyOrder \in DecodeKeyOrders(NewReader(enc.written, FALSE)) :
           dec2' = Decode(NewReader(enc.written, FALSE), dcfg, keyOrder)
    /\ pc' = "decoded again"
    /\ UNCHANGED <<reader, dcfg, dec, reader2, scan, encodeVars, timecodeVars>>

NextReencode == DecodeCall \/ EncodeDecoded \/ DecodeAgain

SpecReencode == InitReencode /\ [][NextReencode]_vars

\* ---- parseALE, one pass of its scan loop at a time

InitScan ==
    /\ pc = "scanning"
    /\ reader \in {NewReader(t, FALSE) : t \in ScanTexts}
                      \cup {NewReader(TextOf(RepeatedColumnLines), TRUE)}
    /\ dcfg = NewDecoder(DefaultFPS, ColumnName, FALSE)
    /\ dec = NoDecode
    /\ dec2 = NoDecode
    /\ reader2 = NewReader(<<>>, FALSE)
    /\ scan = NoScan
    /\ IdleEncode
    /\ IdleTimecode

\* scanner.Scan() returned true: one pass of the loop
ScanLine ==
    /\ pc = "scanning"
    /\ ~reader.fail
    /\ scan.i <= Len(ScanLines(reader.text))
    /\ scan' = scanLine(ScanLines(reader.text), scan.i, scan.st)
    /\ UNCHANGED <<pc, reader, dcfg, dec, dec2, reader2, encodeVars, timecodeVars>>

\* scanner.Scan() returned false: parseALE returns the file, or the error of
\* the reader
ScanEnd ==
    /\ pc = "scanning"
    /\ reader.fail \/ scan.i > Len(ScanLines(reader.text))
    /\ pc' = IF reader.fail THEN "scan failed" ELSE "scanned"
    /\ UNCHANGED <<decodeVars, encodeVars, timecodeVars>>

NextScan == ScanLine \/ ScanEnd

SpecScan == InitScan /\ [][NextScan]_vars

\* ---- a caller that decodes a file and the same file with one more blank line

InitBlankLine ==
    /\ pc = "start"
    /\ \E lines \in EditedLines, blank \in BlankLines :
         \E k \in 0..Len(lines) :
           /\ reader = NewReader(TextOf(lines), FALSE)
           /\ reader2 = NewReader(TextOf(InsertLine(lines, k, blank)), FALSE)
    /\ dcfg = NewDecoder(DefaultFPS, ColumnName, FALSE)
    /\ dec = NoDecode
    /\ dec2 = NoDecode
    /\ scan = NoScan
    /\ IdleEncode
    /\ IdleTimecode

\* Decode by a second decoder with the same options, on the edited file
DecodeEdited ==
    /\ pc = "decoded"
    /\ \E keyOrder \in DecodeKeyOrders(reader2) : dec2' = Decode(reader2, dcfg, keyOrder)
    /\ pc' = "decoded edited"
    /\ UNCHANGED <<reader, dcfg, dec, reader2, scan, encodeVars, timecodeVars>>

NextBlankLine == DecodeCall \/ DecodeEdited

SpecBlankLine == InitBlankLine /\ [][NextBlankLine]_vars

\* ---- a caller that formats a frame count as timecode and parses the text

InitTimecode ==
    /\ pc = "start"
    /\ tcase \in {[f |-> f, rate |-> r, dropFrame |-> df] :
                     r \in TimecodeRates, f \in UNION {TimecodeFrames(x) : x \in TimecodeRates},
                     df \in BOOLEAN}
    /\ tcase.f \in TimecodeFrames(tcase.rate)
    /\ formatted = NoTimecode
    /\ parsed = NoTime
    /\ IdleDecode
    /\ IdleEncode

\* formatTimecode(f at rate, rate, dropFrame)
FormatCall ==
    /\ pc = "start"
    /\ formatted' = formatTimecode(NewRationalTime(tcase.f, tcase.rate), tcase.rate,
                                   tcase.dropFrame)
    /\ pc' = "formatted"
    /\ UNCHANGED <<tcase, parsed, decodeVars, encodeVars>>

\* parseTimecode(text, rate) on the text formatTimecode returned
ParseCall ==
    /\ pc = "formatted"
    /\ formatted.ok
    /\ parsed' = parseTimecode(formatted.tc, tcase.rate)
    /\ pc' = "parsed"
    /\ UNCHANGED <<tcase, formatted, decodeVars, encodeVars>>

NextTimecode == FormatCall \/ ParseCall

SpecTimecode == InitTimecode /\ [][NextTimecode]_vars

\* ---- every caller

Init ==
    \/ InitDecode
    \/ InitRoundTrip
    \/ InitEncodeTwice
    \/ InitReencode
    \/ InitScan
    \/ InitBlankLine
    \/ InitTimecode

Next ==
    \/ DecodeCall
    \/ EncodeCall
    \/ DecodeWritten
    \/ EncodeAgain
    \/ EncodeDecoded
    \/ DecodeAgain
    \/ ScanLine
    \/ ScanEnd
    \/ DecodeEdited
    \/ FormatCall
    \/ ParseCall

Spec == Init /\ [][Next]_vars

\* ------------------------------------------------- properties of Decode

\* the file Decode parsed, its FPS header, and the rates of the decoded times
Decoded == pc = "decoded" /\ ~reader.fail

HasFPSHeader == HeaderFPS \in DOMAIN dec.aleFile.Headers

FPSHeaderText == Get(dec.aleFile.Headers, HeaderFPS)

RowValues(col) == {Get(dec.aleFile.Rows[i], col) : i \in 1..Len(dec.aleFile.Rows)}

RatesOf(timeline) ==
    UNION {{c.sourceRange.start.rate, c.sourceRange.duration.rate} :
              c \in {x \in {FindClips(timeline)[i] : i \in 1..Len(FindClips(timeline))} :
                        x.sourceRange.some}}

\* C3: whenever the parsed file has no data rows, Decode returns an error and
\* no timeline; a Decode that succeeds returns a timeline with a clip.
C3_NoRowsIsAnError ==
    pc = "decoded" =>
        /\ Len(dec.aleFile.Rows) = 0 => dec.err # "" /\ dec.timeline = NilTimeline
        /\ dec.err = "" => ~dec.timeline.nil /\ FindClips(dec.timeline) # <<>>

\* a file with a data line after the Data marker and no declared column
C3_DataLinesWithoutColumns ==
    /\ Decoded
    /\ reader.text = FileText("dataOnly", NoFPSLine, TimeColumns,
                              <<<<sClip001, sTC0, sTC1, Str(120)>>>>)
    /\ dec.aleFile.Columns = <<>>
    /\ dec.err = "no data rows in ALE file"
    /\ dec.timeline = NilTimeline

\* C5: with an FPS header that parses, the decoder's rate after Decode is the
\* header's, its dropFrame is isDropFrame of that rate, and every decoded time
\* is at that rate, whatever WithFPS and WithDropFrame said; with no FPS header
\* the decoder is unchanged and every decoded time is at the configured rate.
\* (An FPS line with an empty value parses, as DefaultFPS.)
C5_HeaderRateWins ==
    Decoded =>
        /\ (HasFPSHeader /\ parseFPS(FPSHeaderText).ok) =>
               /\ dec.d.fps = parseFPS(FPSHeaderText).fps
               /\ dec.d.dropFrame = isDropFrame(parseFPS(FPSHeaderText).fps)
               /\ dec.err = "" => RatesOf(dec.timeline) \subseteq {parseFPS(FPSHeaderText).fps}
        /\ ~HasFPSHeader =>
               /\ dec.d = dcfg
               /\ dec.err = "" => RatesOf(dec.timeline) \subseteq {dcfg.fps}

\* FPS 29.97 in the file, WithFPS(30) and no drop frame configured
C5_HeaderOverridesWithFPS ==
    /\ Decoded
    /\ dcfg = NewDecoder(30000, ColumnName, FALSE)
    /\ FPSHeaderText = <<"2", "9", ".", "9", "7">>
    /\ dec.err = ""
    /\ dec.d.fps = 29970
    /\ dec.d.dropFrame
    /\ RatesOf(dec.timeline) = {29970}

\* C6: an FPS header that does not parse (not a number, zero, negative) makes
\* the decode use DefaultFPS, for every decoder configuration.
C6_UnparseableFPSUsesDefault ==
    (Decoded /\ HasFPSHeader /\ ~parseFPS(FPSHeaderText).ok) =>
        /\ dec.d.fps = DefaultFPS
        /\ dec.err = "" => RatesOf(dec.timeline) \subseteq {DefaultFPS}

\* C7: a row whose ASC_SOP is not empty and does not parse makes Decode return
\* an error.
C7_InvalidSOPIsAnError ==
    (Decoded /\ \E v \in RowValues(ColumnASCSOP) : v # <<>> /\ ~parseASCSOP(v).ok) =>
        dec.err # ""

\* the tokens parseASCSOP splits a value into
SOPTokens(v) == Fields(ReplaceWithSpace(ReplaceWithSpace(v, "("), ")"))

\* C23: parseASCSOP succeeds on the ASC_SOP value of a row exactly when the
\* value has at least 9 tokens and every token is a number; on success the
\* slope, offset and power are tokens 1-3, 4-6 and 7-9.
C23_SOPTokenRule ==
    Decoded =>
        \A v \in RowValues(ColumnASCSOP) \ {<<>>} :
            /\ parseASCSOP(v).ok <=>
                   /\ Len(SOPTokens(v)) >= 9
                   /\ \A k \in 1..Len(SOPTokens(v)) : ParseFloat(SOPTokens(v)[k]).ok
            /\ parseASCSOP(v).ok =>
                   /\ parseASCSOP(v).sop.Slope = [k \in 1..3 |-> Num4(ParseFloat(SOPTokens(v)[k]))]
                   /\ parseASCSOP(v).sop.Offset = [k \in 1..3 |-> Num4(ParseFloat(SOPTokens(v)[k + 3]))]
                   /\ parseASCSOP(v).sop.Power = [k \in 1..3 |-> Num4(ParseFloat(SOPTokens(v)[k + 6]))]

\* C24: after a Decode with an FPS header that parses, the drop-frame flag is
\* set exactly when the rate is within 0.01 of 29.97 or of 59.94.
C24_DropFrameWithinTolerance ==
    (Decoded /\ HasFPSHeader /\ parseFPS(FPSHeaderText).ok) =>
        (dec.d.dropFrame <=>
            \/ (dec.d.fps >= 29970 - 10 /\ dec.d.fps <= 29970 + 10)
            \/ (dec.d.fps >= 59940 - 10 /\ dec.d.fps <= 59940 + 10))

\* C8: a row with a non-empty Start, End or Duration that is neither a timecode
\* nor a number makes Decode return an error and no timeline.
C8_BadTimeFieldIsAnError ==
    (Decoded /\ \E col \in {ColumnStart, ColumnEnd, ColumnDuration} :
                    \E v \in RowValues(col) : v # <<>> /\ ~parseTimecode(v, dec.d.fps).ok) =>
        dec.err # "" /\ dec.timeline = NilTimeline

\* ------------------------------------------------ properties of parseALE

\* the line a pass of the scan loop reads, and whether the loop takes it for a
\* section marker
ScannedLine == ScanLines(reader.text)[scan.i]

ScansText == pc = "scanning" /\ ~reader.fail /\ scan.i <= Len(ScanLines(reader.text))

Markers == {HeaderHeading, HeaderColumn, HeaderData}

StartsWithMarker(line) == \E m \in Markers : HasPrefix(TrimSpace(line), m)

Distinct(seq) == \A i, j \in 1..Len(seq) : seq[i] = seq[j] => i = j

\* C11: when parseALE returns, every row has an entry for every column of the
\* file's column list.
C11_RowsCoverColumns ==
    pc = "scanned" =>
        \A r \in 1..Len(scan.st.Rows) : \A c \in 1..Len(scan.st.Columns) :
            scan.st.Columns[c] \in DOMAIN scan.st.Rows[r]

\* C12: a file and the same file with one more blank line parse to the same
\* headers, columns and rows.
C12_BlankLinesAreIgnored ==
    pc = "decoded edited" => dec2.aleFile = dec.aleFile

\* C19: a pass of the scan loop on a line that is not blank and not equal to
\* Heading, Column or Data leaves inHeading, inData and the columns as they
\* are, stores the line as a header when in the heading, and else appends a
\* row for it when in the data with columns declared.
C19_MarkersByEquality ==
    [][(ScansText /\ TrimSpace(ScannedLine) # <<>> /\ TrimSpace(ScannedLine) \notin Markers) =>
           /\ scan'.i = scan.i + 1
           /\ scan'.st.inHeading = scan.st.inHeading
           /\ scan'.st.inData = scan.st.inData
           /\ scan'.st.Columns = scan.st.Columns
           /\ (scan.st.inHeading /\ Len(splitTabs(ScannedLine)) >= 2) =>
                  TrimSpace(splitTabs(ScannedLine)[1]) \in DOMAIN scan'.st.Headers
           /\ (~scan.st.inHeading /\ scan.st.inData /\ Len(scan.st.Columns) > 0) =>
                  Len(scan'.st.Rows) = Len(scan.st.Rows) + 1]_vars

\* C20: a pass of the scan loop on a data line (not blank, not taken for a
\* marker) read after the Data marker with k >= 1 distinct columns declared
\* appends one row that maps the i-th column to the trimmed i-th field of the
\* line, or to "" when the line has fewer fields; with no column declared it
\* appends no row.
C20_RowsByPosition ==
    [][(ScansText /\ TrimSpace(ScannedLine) # <<>> /\ ~StartsWithMarker(ScannedLine)
            /\ scan.st.inData /\ Distinct(scan.st.Columns)) =>
           IF Len(scan.st.Columns) = 0 THEN scan'.st.Rows = scan.st.Rows
           ELSE /\ Len(scan'.st.Rows) = Len(scan.st.Rows) + 1
                /\ SubSeq(scan'.st.Rows, 1, Len(scan.st.Rows)) = scan.st.Rows
                /\ DOMAIN scan'.st.Rows[Len(scan'.st.Rows)] =
                       {scan.st.Columns[i] : i \in 1..Len(scan.st.Columns)}
                /\ \A i \in 1..Len(scan.st.Columns) :
                       scan'.st.Rows[Len(scan'.st.Rows)][scan.st.Columns[i]] =
                           IF i <= Len(splitTabs(ScannedLine))
                           THEN TrimSpace(splitTabs(ScannedLine)[i]) ELSE <<>>]_vars

\* C29: the scan loop is never in the heading and in the data at once, and a
\* pass on a line that is not blank and not taken for a marker, read after the
\* Data marker, stores no header.
C29_OneModeAtATime ==
    /\ [](~(scan.st.inHeading /\ scan.st.inData))
    /\ [][(ScansText /\ TrimSpace(ScannedLine) # <<>> /\ ~StartsWithMarker(ScannedLine)
               /\ scan.st.inData) =>
              scan'.st.Headers = scan.st.Headers]_vars

\* ------------------------------------------------- properties of clips

\* the clips of the decoded timeline
DecodedOk == Decoded /\ dec.err = ""

DecodedClips == {FindClips(dec.timeline)[i] : i \in 1..Len(FindClips(dec.timeline))}

\* C13: every clip of a decoded timeline that has a source range has a
\* duration of zero or more frames.
C13_NoNegativeDuration ==
    DecodedOk => \A c \in DecodedClips : c.sourceRange.some => c.sourceRange.duration.value >= 0

\* the rows of the decoded file, and the Tracks value of row i with "V" for a
\* blank one
DecodedRows == dec.aleFile.Rows

HasTracksColumn ==
    \E k \in 1..Len(dec.aleFile.Columns) : dec.aleFile.Columns[k] = ColumnTracks

RowKey(i) ==
    IF Get(DecodedRows[i], ColumnTracks) = <<>> THEN <<"V">> ELSE Get(DecodedRows[i], ColumnTracks)

\* the rows with a Tracks key, in file order
RowsWithKey(key) == SelectSeq([i \in 1..Len(DecodedRows) |-> i], LAMBDA i : RowKey(i) = key)

DecodedTracks == dec.timeline.tracks

\* the clip made of row i: in the track of the row's key, after the clips of
\* the earlier rows with that key
ClipOfRow(i) ==
    IF HasTracksColumn
    THEN DecodedTracks[CHOOSE a \in 1..Len(DecodedTracks) : DecodedTracks[a].name = RowKey(i)]
             .clips[Cardinality({j \in 1..i : RowKey(j) = RowKey(i)})]
    ELSE DecodedTracks[1].clips[i]

\* the name rowToClip resolves for row i
ResolvedName(i) ==
    IF Get(DecodedRows[i], dec.d.nameColumnKey) = <<>> THEN <<"C", "l", "i", "p", " ">> \o Str(i)
    ELSE Get(DecodedRows[i], dec.d.nameColumnKey)

\* C14: the clip of a row with a Source File has an external reference to it;
\* else, with a Tape, an external reference to the Tape; else a missing
\* reference named after the resolved clip name; the available range of the
\* reference is the source range of the clip.
C14_MediaReferenceResolution ==
    DecodedOk =>
        \A i \in 1..Len(DecodedRows) :
            /\ ClipOfRow(i).name = ResolvedName(i)
            /\ ClipOfRow(i).mediaRef.availableRange = ClipOfRow(i).sourceRange
            /\ Get(DecodedRows[i], ColumnSourceFile) # <<>> =>
                   /\ ClipOfRow(i).mediaRef.kind = "external"
                   /\ ClipOfRow(i).mediaRef.target = Get(DecodedRows[i], ColumnSourceFile)
            /\ (Get(DecodedRows[i], ColumnSourceFile) = <<>>
                    /\ Get(DecodedRows[i], ColumnTape) # <<>>) =>
                   /\ ClipOfRow(i).mediaRef.kind = "external"
                   /\ ClipOfRow(i).mediaRef.target = Get(DecodedRows[i], ColumnTape)
            /\ (Get(DecodedRows[i], ColumnSourceFile) = <<>>
                    /\ Get(DecodedRows[i], ColumnTape) = <<>>) =>
                   /\ ClipOfRow(i).mediaRef.kind = "missing"
                   /\ ClipOfRow(i).mediaRef.name = ResolvedName(i)

\* a row with a Tape and a Source File after a row with a Tape only
C14_SourceFileBeforeTape ==
    /\ DecodedOk
    /\ Len(DecodedRows) = 2
    /\ Get(DecodedRows[1], ColumnTape) = sT1 /\ Get(DecodedRows[1], ColumnSourceFile) = <<>>
    /\ Get(DecodedRows[2], ColumnTape) = sT1 /\ Get(DecodedRows[2], ColumnSourceFile) = sMov
    /\ ClipOfRow(1).mediaRef = NewExternalReference(sT1, sT1, ClipOfRow(1).sourceRange)
    /\ ClipOfRow(2).mediaRef = NewExternalReference(sMov, sMov, ClipOfRow(2).sourceRange)
    /\ ClipOfRow(2).sourceRange.some

\* the Start, End and Duration fields of row i, and the time a field reads as
StartOf(i) == Get(DecodedRows[i], ColumnStart)

EndOf(i) == Get(DecodedRows[i], ColumnEnd)

DurationOf(i) == Get(DecodedRows[i], ColumnDuration)

TimeOf(field) == parseTimecode(field, dec.d.fps).rt

\* C21: the clip of a row with a Start and an End has the source range from
\* Start, of duration End - Start, whatever its Duration is; else, with a
\* Duration, the duration is the Duration read as a frame count, or as a
\* timecode when it is no number, and the start is Start, or frame 0 without
\* a Start; else the clip has no source range.
C21_TimeRangePrecedence ==
    DecodedOk =>
        \A i \in 1..Len(DecodedRows) :
            IF StartOf(i) # <<>> /\ EndOf(i) # <<>>
            THEN ClipOfRow(i).sourceRange =
                     NewTimeRange(TimeOf(StartOf(i)),
                                  NewRationalTime(TimeOf(EndOf(i)).value
                                                      - TimeOf(StartOf(i)).value,
                                                  dec.d.fps))
            ELSE IF DurationOf(i) # <<>>
            THEN ClipOfRow(i).sourceRange =
                     NewTimeRange(IF StartOf(i) # <<>> THEN TimeOf(StartOf(i))
                                  ELSE NewRationalTime(0, dec.d.fps),
                                  IF parseFrameNumber(DurationOf(i), dec.d.fps).ok
                                  THEN parseFrameNumber(DurationOf(i), dec.d.fps).rt
                                  ELSE TimeOf(DurationOf(i)))
            ELSE ~ClipOfRow(i).sourceRange.some

\* at 30 fps, a row from 01:00:00:00 to 01:00:05:00 with Duration 120: the
\* duration is 150 frames
C21_EndBeatsDuration ==
    /\ DecodedOk
    /\ dec.d.fps = 30000
    /\ Len(DecodedRows) = 1
    /\ StartOf(1) = sTC0 /\ EndOf(1) = sTC1 /\ DurationOf(1) = Str(120)
    /\ ClipOfRow(1).sourceRange =
           NewTimeRange(NewRationalTime(108000, 30000), NewRationalTime(150, 30000))

\* the value of a column of row i is on the clip of the row: in metadata["ALE"]
\* under the column name, as the target of the media reference, or as the
\* parsed CDL value
CarriedByClip(i, col) ==
    \/ /\ ClipOfRow(i).metadata.hasALE
       /\ col \in DOMAIN ClipOfRow(i).metadata.ALE
       /\ ClipOfRow(i).metadata.ALE[col] = DecodedRows[i][col]
    \/ /\ col \in {ColumnSourceFile, ColumnTape}
       /\ ClipOfRow(i).mediaRef.kind = "external"
       /\ ClipOfRow(i).mediaRef.target = DecodedRows[i][col]
    \/ /\ col = ColumnASCSOP
       /\ parseASCSOP(DecodedRows[i][col]).ok
       /\ ClipOfRow(i).metadata.cdl.some
       /\ ClipOfRow(i).metadata.cdl.ASCSOP = parseASCSOP(DecodedRows[i][col]).sop
    \/ /\ col = ColumnASCSAT
       /\ ParseFloat(TrimSpace(DecodedRows[i][col])).ok
       /\ ClipOfRow(i).metadata.cdl.some
       /\ ClipOfRow(i).metadata.cdl.ASCSat =
              [some |-> TRUE, val |-> Num4(ParseFloat(TrimSpace(DecodedRows[i][col])))]

\* C27: after a successful Decode, every non-empty value of a row in a column
\* other than the name column, Start, End and Duration is carried by the clip
\* of the row.
C27_NoSilentLoss ==
    DecodedOk =>
        \A i \in 1..Len(DecodedRows) :
            \A col \in DOMAIN DecodedRows[i]
                        \ {dec.d.nameColumnKey, ColumnStart, ColumnEnd, ColumnDuration} :
                DecodedRows[i][col] # <<>> => CarriedByClip(i, col)

\* C28: after a successful Decode the timeline has as many clips as the file
\* has rows and the clip of row i is the clip rowToClip makes of it; with a
\* Tracks column every row's key has one track, which holds the clips of the
\* rows with that key and is not empty; without one there is one track, of
\* kind video, with the clips of all rows in row order.
C28_OneClipPerRow ==
    DecodedOk =>
        /\ Len(FindClips(dec.timeline)) = Len(DecodedRows)
        /\ HasTracksColumn =>
               /\ \A i \in 1..Len(DecodedRows) :
                      \E a \in 1..Len(DecodedTracks) : DecodedTracks[a].name = RowKey(i)
               /\ \A a, b \in 1..Len(DecodedTracks) :
                      DecodedTracks[a].name = DecodedTracks[b].name => a = b
               /\ \A a \in 1..Len(DecodedTracks) :
                      /\ Len(DecodedTracks[a].clips) > 0
                      /\ Len(DecodedTracks[a].clips) = Len(RowsWithKey(DecodedTracks[a].name))
        /\ ~HasTracksColumn =>
               /\ Len(DecodedTracks) = 1
               /\ DecodedTracks[1].kind = TrackKindVideo
               /\ Len(DecodedTracks[1].clips) = Len(DecodedRows)
        /\ \A i \in 1..Len(DecodedRows) :
               ClipOfRow(i) = rowToClip(DecodedRows[i], i - 1, dec.d).clip

\* two rows on the track V: one track with the clips C1 and C2 in that order
C28_TwoRowsOnOneTrack ==
    /\ DecodedOk /\ HasTracksColumn
    /\ Len(DecodedRows) = 2
    /\ Get(DecodedRows[1], ColumnTracks) = <<"V">>
    /\ Get(DecodedRows[2], ColumnTracks) = <<"V">>
    /\ Len(DecodedTracks) = 1
    /\ Len(DecodedTracks[1].clips) = 2
    /\ DecodedTracks[1].clips[1].name = <<"C", "1">>
    /\ DecodedTracks[1].clips[2].name = <<"C", "2">>

\* the columns of row i that go to metadata["ALE"]
ResidualColumns(i) ==
    {c \in DOMAIN DecodedRows[i] :
        /\ c \notin {dec.d.nameColumnKey, ColumnStart, ColumnEnd, ColumnDuration,
                      ColumnSourceFile, ColumnTape, ColumnASCSOP, ColumnASCSAT}
        /\ DecodedRows[i][c] # <<>>}

\* C15: the keys of metadata["ALE"] of the clip of a row are the columns of
\* the row that are not the name column, Start, End, Duration, Source File,
\* Tape, ASC_SOP or ASC_SAT and have a value in the row, each with the text
\* of the row; there is no metadata["ALE"] when there is no such column.
C15_ResidualMetadataContent ==
    DecodedOk =>
        \A i \in 1..Len(DecodedRows) :
            /\ ClipOfRow(i).metadata.hasALE = (ResidualColumns(i) # {})
            /\ DOMAIN ClipOfRow(i).metadata.ALE = ResidualColumns(i)
            /\ \A c \in ResidualColumns(i) : ClipOfRow(i).metadata.ALE[c] = DecodedRows[i][c]

\* WithNameColumn("Scene"): the Name column is residual, the Scene, Duration,
\* Tape and CDL columns are not; the second row has no residual column
C15_NameColumnIsResidual ==
    /\ DecodedOk
    /\ dec.d.nameColumnKey = sScene
    /\ dec.aleFile.Columns = WideColumns
    /\ Len(DecodedRows) = 2
    /\ Get(DecodedRows[1], ColumnTape) = sT1
    /\ Get(DecodedRows[1], ColumnASCSOP) = sSOP
    /\ ClipOfRow(1).name = sSc1
    /\ ClipOfRow(1).metadata.hasALE
    /\ ClipOfRow(1).metadata.ALE = (ColumnName :> sClip001 @@ ColumnTracks :> <<"V">>)
    /\ Get(DecodedRows[2], ColumnTracks) = <<"A", "1">>
    /\ DOMAIN ClipOfRow(2).metadata.ALE = {ColumnName, ColumnTracks}

\* C16: with a Tracks column the tracks have distinct names, the names are
\* the Tracks values of the rows ("V" for a blank one), and the clips of a
\* track are the clips of the rows with its name, in the order of the rows.
C16_TracksGroupRowsByKey ==
    (DecodedOk /\ HasTracksColumn) =>
        /\ \A a, b \in 1..Len(DecodedTracks) :
               DecodedTracks[a].name = DecodedTracks[b].name => a = b
        /\ {DecodedTracks[a].name : a \in 1..Len(DecodedTracks)} =
               {RowKey(i) : i \in 1..Len(DecodedRows)}
        /\ \A a \in 1..Len(DecodedTracks) :
               DecodedTracks[a].clips =
                   [k \in 1..Len(RowsWithKey(DecodedTracks[a].name)) |->
                       rowToClip(DecodedRows[RowsWithKey(DecodedTracks[a].name)[k]],
                                 RowsWithKey(DecodedTracks[a].name)[k] - 1, dec.d).clip]

\* a row with a blank Tracks value after a row with "V": one track, two clips
C16_BlankJoinsV ==
    /\ DecodedOk
    /\ dec.aleFile.Columns = TrackColumns
    /\ Len(DecodedRows) = 2
    /\ DecodedRows[1][ColumnTracks] = <<"V">>
    /\ DecodedRows[2][ColumnTracks] = <<>>
    /\ Len(DecodedTracks) = 1
    /\ DecodedTracks[1].name = <<"V">>
    /\ Len(DecodedTracks[1].clips) = 2
    /\ DecodedTracks[1].clips[1].name = <<"C", "1">>
    /\ DecodedTracks[1].clips[2].name = <<"C", "2">>

\* the class of a track key as parseTrackKind reads it: 0 for video and
\* audio, 1 for video, 2 for audio
TrackClass(key) ==
    IF ContainsChar(ToUpper(key), "V") /\ ContainsChar(ToUpper(key), "A") THEN 0
    ELSE IF ContainsChar(ToUpper(key), "A") THEN 2
    ELSE 1

\* the kind of a track for a Tracks value, on the upper-cased value
KindOfValue(value) == IF TrackClass(value) = 2 THEN TrackKindAudio ELSE TrackKindVideo

\* C22: with a Tracks column, the kind of every track is the kind of the
\* upper-cased Tracks value of each of its rows: video with "V" and "A", audio
\* with "A" and no "V", video otherwise, the empty value included.
C22_TrackKindOfValue ==
    (DecodedOk /\ HasTracksColumn) =>
        \A a \in 1..Len(DecodedTracks) :
            \A i \in 1..Len(DecodedRows) :
                RowKey(i) = DecodedTracks[a].name =>
                    DecodedTracks[a].kind = KindOfValue(Get(DecodedRows[i], ColumnTracks))

\* the rows a1 and (empty): an audio track a1 and a video track V
C22_LowerCaseAudio ==
    /\ DecodedOk /\ HasTracksColumn
    /\ Len(DecodedRows) = 2
    /\ Get(DecodedRows[1], ColumnTracks) = <<"a", "1">>
    /\ Get(DecodedRows[2], ColumnTracks) = <<>>
    /\ \E a, b \in 1..Len(DecodedTracks) :
           /\ DecodedTracks[a].name = <<"a", "1">> /\ DecodedTracks[a].kind = TrackKindAudio
           /\ DecodedTracks[b].name = <<"V">> /\ DecodedTracks[b].kind = TrackKindVideo

\* the track keys of the decoded file
DecodedKeys == {RowKey(i) : i \in 1..Len(DecodedRows)}

\* C25: on the track keys of a decoded file compareTrackKeys is a strict total
\* order (two distinct keys compare one way round, and the comparison is
\* transitive), and the decoded timeline is the same for every order in which
\* the track map hands its keys to sortTrackKeys.
C25_TrackOrderIsFixed ==
    (DecodedOk /\ HasTracksColumn) =>
        /\ \A a, b \in DecodedKeys :
               a # b => /\ compareTrackKeys(a, b) # 0
                        /\ compareTrackKeys(a, b) < 0 <=> compareTrackKeys(b, a) > 0
        /\ \A a, b, c \in DecodedKeys :
               (compareTrackKeys(a, b) < 0 /\ compareTrackKeys(b, c) < 0) =>
                   compareTrackKeys(a, c) < 0
        /\ \A keyOrder \in Orders(DecodedKeys) :
               [k \in 1..Len(DecodedTracks) |-> DecodedTracks[k].name] = sortTrackKeys(keyOrder)

\* C17: in the track list, a track of a lower class comes before a track of
\* a higher class (video+audio, video, audio), and tracks of one class are in
\* the byte order of their keys.
C17_TracksOrderedByClass ==
    (DecodedOk /\ HasTracksColumn) =>
        \A a, b \in 1..Len(DecodedTracks) :
            a < b =>
                \/ TrackClass(DecodedTracks[a].name) < TrackClass(DecodedTracks[b].name)
                \/ /\ TrackClass(DecodedTracks[a].name) = TrackClass(DecodedTracks[b].name)
                   /\ Compare(DecodedTracks[a].name, DecodedTracks[b].name) < 0

\* ----------------------------------- properties of Encode and round trips

\* metadata["ALE"] of a clip: no entry and an empty map hold the same pairs
Residual(clip) == IF clip.metadata.hasALE THEN clip.metadata.ALE ELSE EmptyMap

\* the clips of two timelines agree in number, order, name, source range and
\* residual metadata
SameClips(a, b) ==
    /\ Len(FindClips(a)) = Len(FindClips(b))
    /\ \A i \in 1..Len(FindClips(a)) :
           /\ FindClips(a)[i].name = FindClips(b)[i].name
           /\ FindClips(a)[i].sourceRange = FindClips(b)[i].sourceRange
           /\ Residual(FindClips(a)[i]) = Residual(FindClips(b)[i])

\* the residual metadata of the clips of two timelines agree, clip by clip
SameResidual(a, b) ==
    /\ Len(FindClips(a)) = Len(FindClips(b))
    /\ \A i \in 1..Len(FindClips(a)) : Residual(FindClips(a)[i]) = Residual(FindClips(b)[i])

\* some clip of the timeline given to Encode fails to convert to a row
ConversionFails ==
    \E i \in 1..Len(FindClips(tl)) :
        clipToRow(FindClips(tl)[i], determineColumns(tl, ecfg), ecfg).err # ""

\* C1: Decode of the text Encode wrote succeeds and yields the clips of the
\* encoded timeline: as many, in the same order, with the same names, source
\* ranges and residual metadata.
C1_RoundTripPreservesClips ==
    pc = "round trip" => dec.err = "" /\ SameClips(tl, dec.timeline)

\* C2: decoding a file, encoding the timeline and decoding the written text
\* gives every clip the residual metadata the first decode gave it.
C2_ReencodePreservesResidual ==
    pc = "decoded again" => dec2.err = "" /\ SameResidual(dec.timeline, dec2.timeline)

\* C4: when the timeline is nil or a clip fails to convert to a row, Encode
\* returns an error and the writer has received no byte.
C4_EncodeAbortsWithoutOutput ==
    (pc # "start" /\ (tl.nil \/ ConversionFails)) => enc.err # "" /\ enc.written = <<>>

\* the second clip of the track cannot be formatted, the first one can
C4_SecondClipFails ==
    /\ pc = "encoded"
    /\ tl = NewTimeline(<<NewTrack(<<"V">>, TrackKindVideo, <<PlainClip, NegativeClip>>)>>)
    /\ clipToRow(PlainClip, determineColumns(tl, ecfg), ecfg).err = ""
    /\ enc.err = "failed to convert timeline to ALE"
    /\ enc.written = <<>>

\* the column names Encode wrote: the line after the Column marker
WrittenColumns ==
    splitTabs(ScanLines(enc.written)[
        1 + CHOOSE k \in 1..Len(ScanLines(enc.written)) :
                /\ ScanLines(enc.written)[k] = HeaderColumn
                /\ \A j \in 1..(k - 1) : ScanLines(enc.written)[j] # HeaderColumn])

EncodedClips == {FindClips(tl)[i] : i \in 1..Len(FindClips(tl))}

\* the columns inferred from the clips: Source File, ASC_SOP, ASC_SAT, and the
\* keys of the residual metadata
InferredColumns ==
    {ColumnSourceFile : c \in {x \in EncodedClips :
                                  x.mediaRef.kind = "external" /\ x.mediaRef.target # <<>>}}
    \cup {ColumnASCSOP : c \in {x \in EncodedClips : x.metadata.cdl.some
                                                        /\ x.metadata.cdl.ASCSOP.some}}
    \cup {ColumnASCSAT : c \in {x \in EncodedClips : x.metadata.cdl.some
                                                        /\ x.metadata.cdl.ASCSat.some}}
    \cup UNION {DOMAIN c.metadata.ALE : c \in {x \in EncodedClips : x.metadata.hasALE}}

\* the elements of a set of texts in byte order
InByteOrder(S) ==
    CHOOSE q \in Orders(S) : \A i, j \in 1..Len(q) : i < j => Compare(q[i], q[j]) < 0

\* C18: without WithColumns, Encode writes the columns Name, Start, End,
\* Duration, then Tracks exactly when the timeline has a video or an audio
\* track, then the inferred columns once each in byte order; with WithColumns
\* it writes the given columns in the given order.
C18_ColumnInference ==
    enc.err = "" =>
        WrittenColumns =
            IF Len(ecfg.columns) > 0 THEN ecfg.columns
            ELSE <<ColumnName, ColumnStart, ColumnEnd, ColumnDuration>>
                     \o (IF \E a \in 1..Len(tl.tracks) :
                                tl.tracks[a].kind \in {TrackKindVideo, TrackKindAudio}
                         THEN <<ColumnTracks>> ELSE <<>>)
                     \o InByteOrder(InferredColumns)

\* a video track whose clips have a media file, a CDL and residual metadata
\* with the keys Scene, Source File and Tracks
C18_InferredFromTwoClips ==
    /\ pc = "encoded"
    /\ tl = NewTimeline(<<NewTrack(<<"V">>, TrackKindVideo, <<TaggedClip, GradedClip>>)>>)
    /\ ecfg.columns = <<>>
    /\ enc.err = ""
    /\ WrittenColumns =
           <<ColumnName, ColumnStart, ColumnEnd, ColumnDuration, ColumnTracks,
             ColumnASCSAT, ColumnASCSOP, sScene, ColumnSourceFile, ColumnTracks>>

\* C26: the column list Encode infers, without WithColumns, names no column
\* twice.
C26_InferredColumnsDistinct ==
    (enc.err = "" /\ ecfg.columns = <<>>) => Distinct(WrittenColumns)

\* C9: two Encode calls on the same timeline with the same options write the
\* same bytes.
C9_EncodeIsDeterministic ==
    pc = "encoded twice" => enc2 = enc

\* ------------------------------------------------ properties of timecode

====
